---- MODULE Spec2Model ----
(***************************************************************************)
(* Body-fat estimator wizard (src/src/App.tsx, English variant, lines      *)
(* 290-503; the Turkish variant, lines 155-279, has the same handlers).    *)
(*                                                                         *)
(* Numbers are exact rationals [k, n, d] in lowest terms (an idealisation  *)
(* of IEEE doubles: the code's values are short decimals times 2.54 or     *)
(* 2.20462, which doubles hold to 1e-16).  Input texts are sequences of    *)
(* one-character strings, so that parsing and formatting are computed.     *)
(* React state is one variable per useState cell; pending setTimeout(300)  *)
(* callbacks are a FIFO queue (equal delays fire in scheduling order).     *)
(* Cells that only drive the display (showStep, hoveredNoteKey,            *)
(* loadingMessage, the focus refs) are not part of the model.              *)
(***************************************************************************)
EXTENDS Integers, Sequences, FiniteSets, TLC

(* ------------------------------ bounds -------------------------------- *)
\* pending 300 ms callbacks
MaxTimers == 2
\* Back clicks and unit toggles of one session (from Welcome to the next Reset)
MaxDetours == 3
\* length of the texts given to validateRange
MaxLen == 3

(* ------------------------------ numbers ------------------------------- *)
RECURSIVE GCD(_, _)
GCD(a, b) == IF b = 0 THEN a ELSE GCD(b, a % b)

Abs(x) == IF x < 0 THEN -x ELSE x

Num(n, d) ==
  LET g == GCD(Abs(n), d)
  IN  [k |-> "num", n |-> n \div g, d |-> d \div g]

NULL == [k |-> "null", n |-> 0, d |-> 1]

NaN == [k |-> "nan", n |-> 0, d |-> 1]

isNaN(x) == x.k = "nan"

Int2Num(i) == Num(i, 1)

\* JS ToNumber on number | null: null coerces to 0
ToNumber(x) == IF x.k = "null" THEN Int2Num(0) ELSE x

Mul(a, b) ==
  LET x == ToNumber(a)
      y == ToNumber(b)
      g1 == GCD(Abs(x.n), y.d)
      g2 == GCD(Abs(y.n), x.d)
  IN  IF isNaN(x) \/ isNaN(y) THEN NaN
      ELSE Num((x.n \div g1) * (y.n \div g2), (x.d \div g2) * (y.d \div g1))

\* division by a positive number
Div(a, b) == Mul(a, [k |-> "num", n |-> ToNumber(b).d, d |-> ToNumber(b).n])

Add(a, b) ==
  LET x == ToNumber(a)
      y == ToNumber(b)
  IN  IF isNaN(x) \/ isNaN(y) THEN NaN
      ELSE Num(x.n * y.d + y.n * x.d, x.d * y.d)

Neg(a) == IF isNaN(a) THEN NaN ELSE Num(-ToNumber(a).n, ToNumber(a).d)

Sub(a, b) == Add(a, Neg(b))

\* a < b on numbers; any comparison with NaN is false.  Integer parts first,
\* then the fractional parts, so that the products stay small.
Lt(a, b) ==
  LET x == ToNumber(a)
      y == ToNumber(b)
      fx == x.n \div x.d
      fy == y.n \div y.d
  IN  /\ ~isNaN(x)
      /\ ~isNaN(y)
      /\ \/ fx < fy
         \/ fx = fy /\ (x.n % x.d) * y.d < (y.n % y.d) * x.d

Gt(a, b) == Lt(b, a)

Le(a, b) == ~isNaN(ToNumber(a)) /\ ~isNaN(ToNumber(b)) /\ ~Lt(b, a)

Ge(a, b) == Le(b, a)

IsInteger(x) == x.k = "num" /\ x.d = 1

\* Math.floor and truncation toward zero
Floor(x) == Int2Num(x.n \div x.d)

Trunc(x) == IF x.n >= 0 THEN Int2Num(x.n \div x.d) ELSE Int2Num(-((-x.n) \div x.d))

\* JS x % m for a positive integer m: the remainder has the sign of x
JsRem(x, m) == Sub(x, Mul(Int2Num(m), Trunc(Div(x, Int2Num(m)))))

RECURSIVE Pow10(_)
Pow10(e) == IF e = 0 THEN 1 ELSE 10 * Pow10(e - 1)

(* ------------------------------- texts -------------------------------- *)
Digits == <<"0", "1", "2", "3", "4", "5", "6", "7", "8", "9">>

IsDigit(c) == \E i \in 1..10 : Digits[i] = c

DigitVal(c) == (CHOOSE i \in 1..10 : Digits[i] = c) - 1

RECURSIVE NatToText(_)
NatToText(i) ==
  IF i < 10 THEN <<Digits[i + 1]>>
  ELSE NatToText(i \div 10) \o <<Digits[(i % 10) + 1]>>

RECURSIVE DigitsToNat(_)
DigitsToNat(s) ==
  IF s = <<>> THEN 0
  ELSE 10 * DigitsToNat(SubSeq(s, 1, Len(s) - 1)) + DigitVal(s[Len(s)])

\* length of the longest run of digits of s starting at position p
RECURSIVE DigitRun(_, _)
DigitRun(s, p) ==
  IF p <= Len(s) /\ IsDigit(s[p]) THEN 1 + DigitRun(s, p + 1) ELSE 0

\* vStr.replace(/,/g, ".")
replaceCommas(s) == [i \in 1..Len(s) |-> IF s[i] = "," THEN "." ELSE s[i]]

\* JS parseFloat: the longest prefix [+-]? (digits [. digits?] | . digits),
\* NaN when that prefix has no digit.  (Exponents, "Infinity" and white
\* space are outside the alphabets used here.)
parseFloat(s) ==
  LET neg == Len(s) >= 1 /\ s[1] = "-"
      p0 == IF Len(s) >= 1 /\ s[1] \in {"-", "+"} THEN 2 ELSE 1
      ni == DigitRun(s, p0)
      p1 == p0 + ni
      dot == p1 <= Len(s) /\ s[p1] = "."
      nf == IF dot THEN DigitRun(s, p1 + 1) ELSE 0
      ip == DigitsToNat(SubSeq(s, p0, p1 - 1))
      fp == DigitsToNat(SubSeq(s, p1 + 1, p1 + nf))
      mag == ip * Pow10(nf) + fp
  IN  IF ni = 0 /\ nf = 0 THEN NaN
      ELSE Num(IF neg THEN -mag ELSE mag, Pow10(nf))

\* Number.prototype.toFixed(decimals) for decimals in {0, 1}: round half
\* away from zero, exactly `decimals` fraction digits, "-" kept on a
\* negative argument.
toFixed(x, decimals) ==
  LET a == Abs(x.n)
      ip == a \div x.d
      r == a % x.d
      sc == Pow10(decimals)
      q == ip * sc + ((2 * r * sc + x.d) \div (2 * x.d))
      body == NatToText(q \div sc) \o
              (IF decimals = 0 THEN <<>> ELSE <<".">> \o NatToText(q % sc))
  IN  IF x.n < 0 THEN <<"-">> \o body ELSE body

\* Number.prototype.toString for a number with at most one fraction digit
toString(x) ==
  LET a == Abs(x.n)
      t == (a * 10) \div x.d
      body == NatToText(t \div 10) \o
              (IF t % 10 = 0 THEN <<>> ELSE <<".">> \o NatToText(t % 10))
  IN  IF x.n < 0 THEN <<"-">> \o body ELSE body

(* ------------------- helper utilities of App.tsx ---------------------- *)
Empty == <<>>

MsgInvalidNumber == <<"Invalid number">>

LbsPerKg == Num(220462, 100000)

CmPerIn == Num(254, 100)

kgToLbs(kg) == Mul(kg, LbsPerKg)

lbsToKg(lbs) == Div(lbs, LbsPerKg)

cmToIn(cm) == Div(cm, CmPerIn)

inToCm(inches) == Mul(inches, CmPerIn)

formatForInput(num, decimals) ==
  IF num.k = "null" \/ isNaN(num) THEN Empty
  ELSE LET value == parseFloat(toFixed(num, decimals))
       IN  IF value.n = 0 THEN <<"0">> ELSE toString(value)

cmToFtIn(cm) ==
  LET totalInches == cmToIn(cm)
  IN  [ft |-> Floor(Div(totalInches, Int2Num(12))),
       inches |-> parseFloat(toFixed(JsRem(totalInches, 12), 1))]

ftInToCm(ft, inches) ==
  IF ft.k = "null" \/ inches.k = "null" THEN NULL
  ELSE inToCm(Add(Mul(ft, Int2Num(12)), inches))

MsgRange(min, max) ==
  <<"Range: ">> \o formatForInput(min, IF IsInteger(min) THEN 0 ELSE 1)
     \o <<"-">> \o formatForInput(max, IF IsInteger(max) THEN 0 ELSE 1)

\* validateRange with both comparisons made non-strict (bounds excluded)
validateRange_exclusive(min, max, vStr) ==
  IF vStr = Empty \/ vStr = <<"-">> THEN Empty
  ELSE LET v == parseFloat(replaceCommas(vStr))
       IN  IF isNaN(v) THEN MsgInvalidNumber
           ELSE IF Le(v, min) \/ Ge(v, max) THEN MsgRange(min, max)
           ELSE Empty

validateRange(min, max, vStr) ==
  IF vStr = Empty \/ vStr = <<"-">> THEN Empty
  ELSE LET v == parseFloat(replaceCommas(vStr))
       IN  IF isNaN(v) THEN MsgInvalidNumber
           ELSE IF Lt(v, min) \/ Gt(v, max) THEN MsgRange(min, max)
           ELSE Empty

parseState(strValue) ==
  IF strValue = Empty THEN NULL
  ELSE LET parsed == parseFloat(replaceCommas(strValue))
       IN  IF ~isNaN(parsed) THEN parsed ELSE NULL

(* --------------------------- wizard state ----------------------------- *)
VARIABLES currentStep, unitSystem, formData, tempInputs, ageStr, errors,
          isLoading, loadingProgress, timers, nDetours,
          call

vars == <<currentStep, unitSystem, formData, tempInputs, ageStr, errors,
          isLoading, loadingProgress, timers, nDetours,
          call>>

wizardVars == <<currentStep, unitSystem, formData, tempInputs, ageStr, errors,
                isLoading, loadingProgress, timers, nDetours>>

\* keys of the errors object; an absent key and an empty message are the
\* same to every reader of errors (all of them test truthiness)
ErrKeys == {"sex", "age", "weight", "heightCm", "heightFt", "heightIn",
            "neck", "waist", "hip"}

NoErrors == [key \in ErrKeys |-> Empty]

InitFormData == [sex |-> "null", age |-> NULL, weightKg |-> NULL,
                 heightCm |-> NULL, neckCm |-> NULL, waistCm |-> NULL,
                 hipCm |-> NULL]

InitTempInputs == [weight |-> Empty, heightCm |-> Empty, heightFt |-> Empty,
                   heightIn |-> Empty, neck |-> Empty, waist |-> Empty,
                   hip |-> Empty]

\* no validateRange call recorded yet
NoCall == [name |-> "age", unit |-> "metric", min |-> NULL, max |-> NULL,
           vStr |-> Empty, ret |-> Empty, done |-> FALSE]

Init ==
  /\ currentStep = 0
  /\ unitSystem = "metric"
  /\ formData = InitFormData
  /\ tempInputs = InitTempInputs
  /\ ageStr = Empty
  /\ errors = NoErrors
  /\ isLoading = FALSE
  /\ loadingProgress = 0
  /\ timers = <<>>
  /\ nDetours = 0
  /\ call = NoCall

(* ------------------------ texts the user types ------------------------ *)
\* One plausible entry per field and unit system, plus an out-of-range
\* waist and a lone minus sign for the hip.  The entries of the two unit
\* systems are the ones handleUnitToggle turns into each other (80 kg and
\* 176.4 lbs, 180.1 cm and 5 ft 10.9 in, 38.1 cm and 15 in, ...).
AgeTexts == {<<"3", "0">>}

SliderTexts == {<<"3", "0">>}

WeightTexts(unit) ==
  IF unit = "metric" THEN {<<"8", "0">>} ELSE {<<"1", "7", "6", ".", "4">>}

HeightCmTexts == {<<"1", "8", "0", ".", "1">>}

HeightFtTexts == {<<"5">>}

HeightInTexts == {<<"1", "0", ".", "9">>}

NeckTexts(unit) ==
  IF unit = "metric" THEN {<<"3", "8", ".", "1">>} ELSE {<<"1", "5">>}

WaistTexts(unit) ==
  IF unit = "metric" THEN {<<"8", "5", ".", "1">>, <<"3", "0", "0">>}
  ELSE {<<"3", "3", ".", "5">>}

HipTexts(unit) ==
  IF unit = "metric" THEN {<<"9", "5">>, <<"-">>}
  ELSE {<<"3", "7", ".", "4">>}

\* the inputs rendered at a step, with the texts typed into each
InputsAt(step, unit) ==
  CASE step = 3 -> {"weight"}
    [] step = 4 -> IF unit = "metric" THEN {"heightCm"} ELSE {"heightFt", "heightIn"}
    [] step = 5 -> {"neck"}
    [] step = 6 -> {"waist"}
    [] step = 7 -> {"hip"}
    [] OTHER -> {}

TextsFor(name, unit) ==
  CASE name = "weight" -> WeightTexts(unit)
    [] name = "heightCm" -> HeightCmTexts
    [] name = "heightFt" -> HeightFtTexts
    [] name = "heightIn" -> HeightInTexts
    [] name = "neck" -> NeckTexts(unit)
    [] name = "waist" -> WaistTexts(unit)
    [] name = "hip" -> HipTexts(unit)

(* ------------------ decimal arithmetic of the engine ------------------ *)
\* The doubles the results memo computes are idealised as decimals with four
\* fraction digits (an integer count of 1/Scale), truncated after every
\* operation (a product with a small coefficient is truncated once, after
\* the whole product); logarithms and the Navy denominator are computed with
\* eight fraction digits.  The values of the memo are then within 0.005 of
\* the doubles the code computes, for heights below 4.6 m and the other
\* fields within a factor ten of their Data Model domains.  The arithmetic
\* is written as functions of integers: an argument is a number, computed
\* once, when the function is applied.
Scale == Pow10(4)

LogScale == Pow10(8)

Pow2[e \in Nat] == IF e = 0 THEN 1 ELSE 2 * Pow2[e - 1]

\* the exponent e with unit * 2^e <= x < unit * 2^(e+1), as halvings of a
\* large x or doublings of a small one
Halvings[x \in Int, unit \in Int] ==
  IF x >= 2 * unit THEN 1 + Halvings[x \div 2, unit] ELSE 0

Doublings[x \in Int, unit \in Int] ==
  IF 0 < x /\ x < unit THEN 1 + Doublings[2 * x, unit] ELSE 0

\* from h = <<q, r>> with n = q * c + r to the pair of 2 * n + a1
Doubled[h \in Int \X Int, a1 \in Int, c \in Int] ==
  <<2 * h[1] + (a1 \div c) + ((2 * h[2] + (a1 % c)) \div c),
    (2 * h[2] + (a1 % c)) % c>>

\* <<q, r>> with a * b = q * c + r and 0 <= r < c, for a, b >= 0 and c > 0,
\* by doubling (no intermediate value above 3 * c or the quotient)
MulDivQR[a \in Int, b \in Int, c \in Int] ==
  IF b = 0 THEN <<0, 0>>
  ELSE Doubled[MulDivQR[a, b \div 2, c], IF b % 2 = 1 THEN a ELSE 0, c]

\* a * b / c truncated toward zero, for c > 0
MulDiv[a \in Int, b \in Int, c \in Int] ==
  IF a = 0 \/ b = 0 \/ c <= 0 THEN 0
  ELSE IF (a < 0) # (b < 0) THEN -MulDivQR[Abs(a), Abs(b), c][1]
  ELSE MulDivQR[Abs(a), Abs(b), c][1]

\* a number (rational) as a count of 1/Scale, and back
ToFix(x) == MulDiv[x.n, Scale, x.d]

FromFix[f \in Int] == Num(f, Scale)

\* a decimal literal n/d of the source
Dec(n, d) == (n * Scale) \div d

\* x * y, and (n/d) * x
FMul[x \in Int, y \in Int] == MulDiv[x, y, Scale]

Coef[n \in Int, d \in Int, x \in Int] == MulDiv[x, n, d]

\* x / y with x a count of 1/Scale and y one of 1/LogScale
FDiv[x \in Int, y \in Int] ==
  IF y < 0 THEN -MulDiv[x, LogScale, -y] ELSE MulDiv[x, LogScale, y]

\* ln 2 and ln 10 as counts of 1/LogScale
Ln2 == 69314718

Ln10 == 230258509

\* 2 * atanh(z) for 0 <= z < 1/3, z and the result counts of 1/LogScale
Atanh2[z \in Int] ==
  LET z2 == MulDiv[z, z, LogScale]
      z3 == MulDiv[z, z2, LogScale]
      z5 == MulDiv[z3, z2, LogScale]
      z7 == MulDiv[z5, z2, LogScale]
      z9 == MulDiv[z7, z2, LogScale]
      z11 == MulDiv[z9, z2, LogScale]
  IN  2 * (z + z3 \div 3 + z5 \div 5 + z7 \div 7 + z9 \div 9 + z11 \div 11)

\* ln m for 1 <= m < 2 (m and the result counts of 1/LogScale):
\* 2 * atanh((m - 1) / (m + 1))
LnMantissa[m \in Int] == Atanh2[MulDiv[m - LogScale, LogScale, m + LogScale]]

\* Math.log(x) for x > 0: x a count of 1/Scale, the result of 1/LogScale
\* (the memo guards every logarithm with a test x > 0; 0 stands for the
\* value at any other x)
MathLog[x \in Int] ==
  IF x <= 0 THEN 0
  ELSE LET k == Halvings[x, Scale]
           j == Doublings[x, Scale]
           m == IF x >= Scale THEN MulDiv[x, LogScale \div Scale, Pow2[k]]
                ELSE x * Pow2[j] * (LogScale \div Scale)
       IN  (k - j) * Ln2 + LnMantissa[m]

\* Math.log10(x) for x > 0, same units
MathLog10[x \in Int] == MulDiv[MathLog[x], LogScale, Ln10]

(* ------------------------------ results ------------------------------- *)
\* The results memo: NoResult on an incomplete record, otherwise the bundle.
\* The bundle records which entries the guards of the memo fill in.
NoResult == [isNull |-> TRUE, BMI_VAL |-> FALSE, BMI_BF |-> FALSE,
             NAVY |-> FALSE, RFM |-> FALSE, CUN_BAE |-> FALSE,
             ECORE |-> FALSE, AVERAGE_BF |-> FALSE]

\* calculateBMIPresent without the test heightCm <= 0
calculateBMIPresent_noHeightGuard(weightKg, heightCm) ==
  ~(weightKg = NULL \/ heightCm = NULL)

calculateBMIPresent(weightKg, heightCm) ==
  ~(weightKg = NULL \/ heightCm = NULL \/ Le(heightCm, Int2Num(0)))

\* bundleOf with the female Navy guard (hip included) applied to both sexes
bundleOf_hipForMale(fd) ==
       LET bmi == calculateBMIPresent(fd.weightKg, fd.heightCm)
           navy == /\ Gt(Sub(Add(fd.waistCm, fd.hipCm), fd.neckCm), Int2Num(0))
                   /\ Gt(fd.heightCm, Int2Num(0))
           rfm == Gt(fd.heightCm, Int2Num(0)) /\ Gt(fd.waistCm, Int2Num(0))
           ecore == bmi /\ Gt(fd.weightKg, Int2Num(0))
       IN  [isNull |-> FALSE, BMI_VAL |-> bmi, BMI_BF |-> bmi, NAVY |-> navy,
            RFM |-> rfm, CUN_BAE |-> bmi, ECORE |-> ecore,
            AVERAGE_BF |-> bmi \/ navy \/ rfm \/ ecore]

\* the bundle the memo builds once its null guard has passed
bundleOf(fd) ==
       LET isMale == fd.sex = "male"
           bmi == calculateBMIPresent(fd.weightKg, fd.heightCm)
           navy == IF isMale
                   THEN Gt(Sub(fd.waistCm, fd.neckCm), Int2Num(0))
                        /\ Gt(fd.heightCm, Int2Num(0))
                   ELSE fd.hipCm # NULL
                        /\ Gt(Sub(Add(fd.waistCm, fd.hipCm), fd.neckCm), Int2Num(0))
                        /\ Gt(fd.heightCm, Int2Num(0))
           rfm == Gt(fd.heightCm, Int2Num(0)) /\ Gt(fd.waistCm, Int2Num(0))
           ecore == bmi /\ Gt(fd.weightKg, Int2Num(0))
       IN  [isNull |-> FALSE, BMI_VAL |-> bmi, BMI_BF |-> bmi, NAVY |-> navy,
            RFM |-> rfm, CUN_BAE |-> bmi, ECORE |-> ecore,
            AVERAGE_BF |-> bmi \/ navy \/ rfm \/ ecore]

\* resultsOf with a null guard that asks for hipCm whatever the sex
resultsOf_hipForAll(fd) ==
  IF \/ fd.sex = "null"
     \/ fd.age = NULL
     \/ fd.weightKg = NULL
     \/ fd.heightCm = NULL
     \/ fd.neckCm = NULL
     \/ fd.waistCm = NULL
     \/ fd.hipCm = NULL
  THEN NoResult
  ELSE bundleOf(fd)

\* resultsOf without the hip tests: a female record with a null hipCm gets
\* a bundle, its Navy entry computed from the waist and the neck
resultsOf_navyWithoutHip(fd) ==
  IF \/ fd.sex = "null"
     \/ fd.age = NULL
     \/ fd.weightKg = NULL
     \/ fd.heightCm = NULL
     \/ fd.neckCm = NULL
     \/ fd.waistCm = NULL
  THEN NoResult
  ELSE [bundleOf(fd) EXCEPT
          !.NAVY = IF fd.sex = "male" THEN @
                   ELSE /\ Gt(Sub(Add(fd.waistCm, fd.hipCm), fd.neckCm),
                              Int2Num(0))
                        /\ Gt(fd.heightCm, Int2Num(0))]

resultsOf(fd) ==
  IF \/ fd.sex = "null"
     \/ fd.age = NULL
     \/ fd.weightKg = NULL
     \/ fd.heightCm = NULL
     \/ fd.neckCm = NULL
     \/ fd.waistCm = NULL
     \/ (fd.sex = "female" /\ fd.hipCm = NULL)
  THEN NoResult
  ELSE bundleOf(fd)

results == resultsOf(formData)

\* calculateBMI dividing by heightM instead of heightM * heightM
calculateBMI_notSquared(weightKg, heightCm) ==
  LET heightM == heightCm \div 100
  IN  MulDiv[weightKg, Scale, heightM]

\* calculateBMI for heightCm > 0 (arguments and result counts of 1/Scale;
\* heightM * heightM is kept as a count of 1/LogScale)
calculateBMI(weightKg, heightCm) ==
  LET heightM == heightCm \div 100
  IN  MulDiv[weightKg, LogScale, heightM * heightM]

\* Math.max(0, x) left out
MathMax0_identity(x) == x

\* Math.max(0, x)
MathMax0(x) == IF x < 0 THEN 0 ELSE x

\* the bundle without numbers
NoValues == [BMI_VAL |-> NULL, BMI_BF |-> NULL, NAVY |-> NULL, RFM |-> NULL,
             CUN_BAE |-> NULL, ECORE |-> NULL, AVERAGE_BF |-> NULL]

\* the male indicator of the Deurenberg term, with the polarity of the
\* other indicator
sexFactorDeurenberg_femaleIndicator(isMale) == IF isMale THEN 0 ELSE 1

\* const sexFactorDeurenberg = isMale ? 1 : 0
sexFactorDeurenberg(isMale) == IF isMale THEN 1 ELSE 0

\* const sexFactorCunEcore = isMale ? 0 : 1
sexFactorCunEcore(isMale) == IF isMale THEN 0 ELSE 1

\* calculatedResults of the memo once its null guard has passed: for each
\* entry the guards fill in, the number the memo stores; NULL for the others
calculatedResultsOf(fd) ==
    LET has == resultsOf(fd)
        isMale == fd.sex = "male"
        age == ToFix(fd.age)
        weightKg == ToFix(fd.weightKg)
        heightCm == ToFix(fd.heightCm)
        neckCm == ToFix(fd.neckCm)
        waistCm == ToFix(fd.waistCm)
        hipCm == ToFix(fd.hipCm)
        bmi == calculateBMI(weightKg, heightCm)
        bf_bmi == Coef[120, 100, bmi] + Coef[23, 100, age]
                    - Dec(108, 10) * sexFactorDeurenberg(isMale) - Dec(54, 10)
        wmn == waistCm - neckCm
        wphmn == waistCm + hipCm - neckCm
        denMale == 10324 * (LogScale \div 10000)
                     - Coef[19077, 100000, MathLog10[wmn]]
                     + Coef[15456, 100000, MathLog10[heightCm]]
        denFemale == 129579 * (LogScale \div 100000)
                       - Coef[35004, 100000, MathLog10[wphmn]]
                       + Coef[22100, 100000, MathLog10[heightCm]]
        bf_n == FDiv[Dec(495, 1), IF isMale THEN denMale ELSE denFemale]
                  - Dec(450, 1)
        hwr20 == MulDiv[20 * heightCm, Scale, waistCm]
        bf_r == IF isMale THEN Dec(64, 1) - hwr20 ELSE Dec(76, 1) - hwr20
        bmiSq == FMul[bmi, bmi]
        bf_c == -Dec(44988, 1000) + Coef[503, 1000, age]
                  + Dec(10689, 1000) * sexFactorCunEcore(isMale)
                  + Coef[3172, 1000, bmi]
                  - Coef[26, 1000, bmiSq]
                  + Coef[181, 1000, bmi] * sexFactorCunEcore(isMale)
                  - MulDiv[bmi, 2 * age, 100 * Scale]
                  - Coef[5, 1000, bmiSq] * sexFactorCunEcore(isMale)
                  + MulDiv[bmiSq, (21 * age) \div 100, 1000 * Scale]
        lnB == MathLog[bmi]
        bf_e == -Dec(97102, 1000) + Coef[123, 1000, age]
                  + Dec(119, 10) * sexFactorCunEcore(isMale)
                  + MulDiv[lnB, 35959, 1000 * (LogScale \div Scale)]
        Val(present, x) == IF present THEN FromFix[x] ELSE NULL
    IN  [BMI_VAL |-> Val(has.BMI_VAL, bmi),
         BMI_BF |-> Val(has.BMI_BF, MathMax0(bf_bmi)),
         NAVY |-> Val(has.NAVY, MathMax0(bf_n)),
         RFM |-> Val(has.RFM, MathMax0(bf_r)),
         CUN_BAE |-> Val(has.CUN_BAE, MathMax0(bf_c)),
         ECORE |-> Val(has.ECORE, MathMax0(bf_e))]

\* validBfResults without the test on the key
validBfResults_withBmi(calculatedResults) ==
  {k \in DOMAIN calculatedResults :
     calculatedResults[k] # NULL /\ ~isNaN(calculatedResults[k])}

\* the entries the average is taken over
validBfResults(calculatedResults) ==
  {k \in DOMAIN calculatedResults :
     k # "BMI_VAL" /\ calculatedResults[k] # NULL
                   /\ ~isNaN(calculatedResults[k])}

\* averageBf without the division by the length
averageBf_sum(calculatedResults) ==
  LET valid == validBfResults(calculatedResults)
      RECURSIVE Sum(_)
      Sum(keys) == IF keys = {} THEN 0
                   ELSE LET key == CHOOSE x \in keys : TRUE
                        IN  ToFix(calculatedResults[key]) + Sum(keys \ {key})
  IN  IF valid # {} THEN FromFix[Sum(valid)] ELSE NULL

\* averageBf that gives null unless all five estimates are there
averageBf_allFive(calculatedResults) ==
  LET valid == validBfResults(calculatedResults)
      RECURSIVE Sum(_)
      Sum(keys) == IF keys = {} THEN 0
                   ELSE LET key == CHOOSE x \in keys : TRUE
                        IN  ToFix(calculatedResults[key]) + Sum(keys \ {key})
  IN  IF Cardinality(valid) = 5
      THEN FromFix[Sum(valid) \div Cardinality(valid)] ELSE NULL

\* sum / length of validBfResults, null when there is none
averageBf(calculatedResults) ==
  LET valid == validBfResults(calculatedResults)
      RECURSIVE Sum(_)
      Sum(keys) == IF keys = {} THEN 0
                   ELSE LET key == CHOOSE x \in keys : TRUE
                        IN  ToFix(calculatedResults[key]) + Sum(keys \ {key})
  IN  IF valid # {} THEN FromFix[Sum(valid) \div Cardinality(valid)] ELSE NULL

\* The numbers of the results memo: calculatedResults (computed once) and
\* their average; NULL everywhere for a null result.
valuesOf(fd) ==
  IF resultsOf(fd).isNull THEN NoValues
  ELSE CHOOSE values \in
         {[BMI_VAL |-> calculatedResults.BMI_VAL,
           BMI_BF |-> calculatedResults.BMI_BF,
           NAVY |-> calculatedResults.NAVY,
           RFM |-> calculatedResults.RFM,
           CUN_BAE |-> calculatedResults.CUN_BAE,
           ECORE |-> calculatedResults.ECORE,
           AVERAGE_BF |-> averageBf(calculatedResults)] :
            calculatedResults \in {calculatedResultsOf(fd)}} : TRUE

\* getBfCategory with the test bfPercentage < 15 for the male Athletic band
getBfCategory_exclusive(bfPercentage, sex) ==
  IF bfPercentage = NULL \/ sex = "null" THEN "Unknown"
  ELSE IF sex = "male"
  THEN IF Lt(bfPercentage, Int2Num(8)) THEN "Contest Prep"
       ELSE IF Lt(bfPercentage, Int2Num(15)) THEN "Athletic"
       ELSE IF Le(bfPercentage, Int2Num(21)) THEN "Average"
       ELSE IF Le(bfPercentage, Int2Num(26)) THEN "Overweight"
       ELSE "Obese"
  ELSE IF Lt(bfPercentage, Int2Num(14)) THEN "Contest Prep"
       ELSE IF Le(bfPercentage, Int2Num(24)) THEN "Athletic"
       ELSE IF Le(bfPercentage, Int2Num(33)) THEN "Average"
       ELSE IF Le(bfPercentage, Int2Num(39)) THEN "Overweight"
       ELSE "Obese"

\* getBfCategory with the female Average and Overweight results exchanged
getBfCategory_swapped(bfPercentage, sex) ==
  IF bfPercentage = NULL \/ sex = "null" THEN "Unknown"
  ELSE IF sex = "male"
  THEN IF Lt(bfPercentage, Int2Num(8)) THEN "Contest Prep"
       ELSE IF Le(bfPercentage, Int2Num(15)) THEN "Athletic"
       ELSE IF Le(bfPercentage, Int2Num(21)) THEN "Average"
       ELSE IF Le(bfPercentage, Int2Num(26)) THEN "Overweight"
       ELSE "Obese"
  ELSE IF Lt(bfPercentage, Int2Num(14)) THEN "Contest Prep"
       ELSE IF Le(bfPercentage, Int2Num(24)) THEN "Athletic"
       ELSE IF Le(bfPercentage, Int2Num(33)) THEN "Overweight"
       ELSE IF Le(bfPercentage, Int2Num(39)) THEN "Average"
       ELSE "Obese"

getBfCategory(bfPercentage, sex) ==
  IF bfPercentage = NULL \/ sex = "null" THEN "Unknown"
  ELSE IF sex = "male"
  THEN IF Lt(bfPercentage, Int2Num(8)) THEN "Contest Prep"
       ELSE IF Le(bfPercentage, Int2Num(15)) THEN "Athletic"
       ELSE IF Le(bfPercentage, Int2Num(21)) THEN "Average"
       ELSE IF Le(bfPercentage, Int2Num(26)) THEN "Overweight"
       ELSE "Obese"
  ELSE IF Lt(bfPercentage, Int2Num(14)) THEN "Contest Prep"
       ELSE IF Le(bfPercentage, Int2Num(24)) THEN "Athletic"
       ELSE IF Le(bfPercentage, Int2Num(33)) THEN "Average"
       ELSE IF Le(bfPercentage, Int2Num(39)) THEN "Overweight"
       ELSE "Obese"

(* ------------------------------ handlers ------------------------------ *)
\* validateInputOnChange: the min and max its switch passes to validateRange
boundsOf(name, unit) ==
  LET metric == unit = "metric"
      B(lo, hi) == [min |-> lo, max |-> hi]
  IN  CASE name = "age" -> B(Int2Num(15), Int2Num(100))
        [] name = "weight" ->
             B(IF metric THEN Int2Num(30) ELSE kgToLbs(Int2Num(30)),
               IF metric THEN Int2Num(300) ELSE kgToLbs(Int2Num(300)))
        [] name = "heightCm" -> B(Int2Num(100), Int2Num(250))
        [] name = "heightFt" -> B(Int2Num(3), Int2Num(8))
        [] name = "heightIn" -> B(Int2Num(0), Num(119, 10))
        [] name = "neck" ->
             B(IF metric THEN Int2Num(20) ELSE cmToIn(Int2Num(20)),
               IF metric THEN Int2Num(70) ELSE cmToIn(Int2Num(70)))
        [] name = "waist" ->
             B(IF metric THEN Int2Num(40) ELSE cmToIn(Int2Num(40)),
               IF metric THEN Int2Num(200) ELSE cmToIn(Int2Num(200)))
        [] name = "hip" ->
             B(IF metric THEN Int2Num(50) ELSE cmToIn(Int2Num(50)),
               IF metric THEN Int2Num(200) ELSE cmToIn(Int2Num(200)))

\* validateInputOnChange: the message it stores under errors[name]
validateInputOnChange(name, value, unit) ==
  IF name \in {"age", "weight", "heightCm", "heightFt", "heightIn", "neck",
               "waist", "hip"}
  THEN validateRange(boundsOf(name, unit).min, boundsOf(name, unit).max, value)
  ELSE Empty

\* a setTimeout(..., 300) callback waiting to run
Timer(kind, to) == [kind |-> kind, to |-> to]

RequiredMsg(key) ==
  CASE key = "sex" -> <<"Please select a gender.">>
    [] key = "age" -> <<"Age is required.">>
    [] key = "weight" -> <<"Weight is required.">>
    [] key = "heightCm" -> <<"Height is required.">>
    [] key = "heightFt" -> <<"Feet required.">>
    [] key = "heightIn" -> <<"Inches required.">>
    [] key = "neck" -> <<"Neck is required.">>
    [] key = "waist" -> <<"Waist is required.">>
    [] key = "hip" -> <<"Hip is required.">>

\* errors[key] without the required message as its alternative
ErrOr_noRequired(key) == errors[key]

\* errors[key] || required message
ErrOr(key) == IF errors[key] # Empty THEN errors[key] ELSE RequiredMsg(key)

\* the switch of handleNext: [ok, errs, fd] = isValid, currentErrors and the
\* record after the setFormData of the case
NextSwitch ==
  LET isValid0 == \A key \in ErrKeys : errors[key] = Empty
      metric == unitSystem = "metric"
      circKey == IF currentStep = 5 THEN "neck"
                 ELSE IF currentStep = 6 THEN "waist" ELSE "hip"
      circCm == IF metric THEN parseState(tempInputs[circKey])
                ELSE inToCm(parseState(tempInputs[circKey]))
      ftBad == tempInputs.heightFt = Empty \/ errors["heightFt"] # Empty
      inBad == tempInputs.heightIn = Empty \/ errors["heightIn"] # Empty
      heightCmVal == IF metric THEN parseState(tempInputs.heightCm)
                     ELSE ftInToCm(parseState(tempInputs.heightFt),
                                   parseState(tempInputs.heightIn))
  IN  CASE currentStep = 1 ->
             IF formData.sex = "null"
             THEN [ok |-> FALSE, fd |-> formData,
                   errs |-> [NoErrors EXCEPT !["sex"] = RequiredMsg("sex")]]
             ELSE [ok |-> isValid0, fd |-> formData, errs |-> NoErrors]
        [] currentStep = 2 ->
             IF ageStr = Empty \/ errors["age"] # Empty
             THEN [ok |-> FALSE, fd |-> formData,
                   errs |-> [NoErrors EXCEPT !["age"] = ErrOr("age")]]
             ELSE [ok |-> isValid0, errs |-> NoErrors,
                   fd |-> [formData EXCEPT !.age = parseState(ageStr)]]
        [] currentStep = 3 ->
             IF tempInputs.weight = Empty \/ errors["weight"] # Empty
             THEN [ok |-> FALSE, fd |-> formData,
                   errs |-> [NoErrors EXCEPT !["weight"] = ErrOr("weight")]]
             ELSE [ok |-> isValid0, errs |-> NoErrors,
                   fd |-> [formData EXCEPT !.weightKg =
                             IF metric THEN parseState(tempInputs.weight)
                             ELSE lbsToKg(parseState(tempInputs.weight))]]
        [] currentStep = 4 /\ metric ->
             IF tempInputs.heightCm = Empty \/ errors["heightCm"] # Empty
             THEN [ok |-> FALSE, fd |-> formData,
                   errs |-> [NoErrors EXCEPT !["heightCm"] = ErrOr("heightCm")]]
             ELSE [ok |-> isValid0, errs |-> NoErrors,
                   fd |-> IF isValid0 /\ heightCmVal # NULL
                          THEN [formData EXCEPT !.heightCm = heightCmVal]
                          ELSE formData]
        [] currentStep = 4 /\ ~metric ->
             IF ftBad \/ inBad
             THEN [ok |-> FALSE, fd |-> formData,
                   errs |-> [NoErrors EXCEPT
                               !["heightFt"] = IF ftBad THEN ErrOr("heightFt") ELSE Empty,
                               !["heightIn"] = IF inBad THEN ErrOr("heightIn") ELSE Empty]]
             ELSE [ok |-> isValid0, errs |-> NoErrors,
                   fd |-> IF isValid0 /\ heightCmVal # NULL
                          THEN [formData EXCEPT !.heightCm = heightCmVal]
                          ELSE formData]
        [] currentStep \in {5, 6, 7} ->
             IF tempInputs[circKey] = Empty \/ errors[circKey] # Empty
             THEN [ok |-> FALSE, fd |-> formData,
                   errs |-> [NoErrors EXCEPT ![circKey] = ErrOr(circKey)]]
             ELSE [ok |-> isValid0, errs |-> NoErrors,
                   fd |-> IF currentStep = 5 THEN [formData EXCEPT !.neckCm = circCm]
                          ELSE IF currentStep = 6 THEN [formData EXCEPT !.waistCm = circCm]
                          ELSE [formData EXCEPT !.hipCm = circCm]]
        [] OTHER -> [ok |-> isValid0, fd |-> formData, errs |-> NoErrors]

\* the step an accepted Next goes to
NextStepOf(step, sex) ==
  IF step + 1 = 7 /\ sex = "male" THEN 8 ELSE step + 1

handleNext ==
  LET r == NextSwitch
      accepted == r.ok /\ \A key \in ErrKeys : r.errs[key] = Empty
      nextStep == NextStepOf(currentStep, formData.sex)
  IN  /\ formData' = r.fd
      /\ errors' = r.errs
      /\ IF accepted
         THEN /\ Len(timers) < MaxTimers
              /\ isLoading' = (isLoading \/ nextStep = 8)
              /\ loadingProgress' = IF nextStep = 8 THEN 0 ELSE loadingProgress
              /\ timers' = Append(timers, Timer("step", nextStep))
         ELSE UNCHANGED <<isLoading, loadingProgress, timers>>
      /\ UNCHANGED <<currentStep, unitSystem, tempInputs, ageStr, nDetours, call>>

\* the Next button (rendered at steps 1..7, with its disabled attribute)
NextClick ==
  /\ currentStep \in 1..7
  /\ ~isLoading
  /\ ~(currentStep = 1 /\ formData.sex = "null")
  /\ \A key \in ErrKeys : errors[key] = Empty
  /\ handleNext

\* handleKeyDown: Enter in an input of steps 2..7
handleKeyDown ==
  /\ currentStep \in 2..7
  /\ handleNext

\* PrevStepOf without the decrement
PrevStepOf_noDecrement(step, sex) ==
  IF step = 7 /\ sex = "male" THEN 6 ELSE step

\* the Back button (rendered at steps 1..7, disabled while loading)
PrevStepOf(step, sex) ==
  IF step - 1 = 7 /\ sex = "male" THEN 6 ELSE step - 1

handleBack ==
  LET prevStep == PrevStepOf(currentStep, formData.sex)
  IN  /\ currentStep \in 1..7
      /\ ~isLoading
      /\ Len(timers) < MaxTimers
      /\ nDetours < MaxDetours
      /\ nDetours' = nDetours + 1
      /\ timers' = Append(timers, Timer("back", prevStep))
      /\ UNCHANGED <<currentStep, unitSystem, formData, tempInputs, ageStr,
                     errors, isLoading, loadingProgress, call>>

\* the START button of the Welcome step
handleStart ==
  /\ currentStep = 0
  /\ Len(timers) < MaxTimers
  /\ timers' = Append(timers, Timer("step", 1))
  /\ UNCHANGED <<currentStep, unitSystem, formData, tempInputs, ageStr,
                 errors, isLoading, loadingProgress, nDetours, call>>

\* the reset button of the Results step (rendered only with a result)
handleReset ==
  /\ currentStep = 9
  /\ ~results.isNull
  /\ Len(timers) < MaxTimers
  /\ timers' = Append(timers, Timer("reset", 0))
  /\ UNCHANGED <<currentStep, unitSystem, formData, tempInputs, ageStr,
                 errors, isLoading, loadingProgress, nDetours, call>>

\* the two cards of the Sex step
SelectSex(sex) ==
  /\ currentStep = 1
  /\ formData' = [formData EXCEPT !.sex = sex]
  /\ UNCHANGED <<currentStep, unitSystem, tempInputs, ageStr, errors,
                 isLoading, loadingProgress, timers, nDetours, call>>

\* handleUnitToggle without the return on newSystem === unitSystem
handleUnitToggle_noEarlyReturn(newSystem) ==
  /\ currentStep \in {3, 4}
  /\ IF FALSE
     THEN UNCHANGED <<unitSystem, tempInputs, errors, nDetours>>
     ELSE LET currentWeight == parseState(tempInputs.weight)
              currentHeightCm == parseState(tempInputs.heightCm)
              currentHeightFt == parseState(tempInputs.heightFt)
              currentHeightIn == parseState(tempInputs.heightIn)
              currentNeck == parseState(tempInputs.neck)
              currentWaist == parseState(tempInputs.waist)
              currentHip == parseState(tempInputs.hip)
              ftin == cmToFtIn(currentHeightCm)
              heightCmConverted == ftInToCm(currentHeightFt, currentHeightIn)
              conv(x, f(_)) == IF x # NULL THEN formatForInput(f(x), 1) ELSE Empty
          IN  /\ nDetours < MaxDetours
              /\ nDetours' = nDetours + 1
              /\ unitSystem' = newSystem
              /\ errors' = NoErrors
              /\ tempInputs' =
                   IF newSystem = "imperial"
                   THEN [weight |-> conv(currentWeight, kgToLbs),
                         heightCm |-> Empty,
                         heightFt |-> IF currentHeightCm # NULL
                                      THEN formatForInput(ftin.ft, 0) ELSE Empty,
                         heightIn |-> IF currentHeightCm # NULL
                                      THEN formatForInput(ftin.inches, 1) ELSE Empty,
                         neck |-> conv(currentNeck, cmToIn),
                         waist |-> conv(currentWaist, cmToIn),
                         hip |-> conv(currentHip, cmToIn)]
                   ELSE [weight |-> conv(currentWeight, lbsToKg),
                         heightCm |-> IF heightCmConverted # NULL
                                      THEN formatForInput(heightCmConverted, 1)
                                      ELSE Empty,
                         heightFt |-> Empty,
                         heightIn |-> Empty,
                         neck |-> conv(currentNeck, inToCm),
                         waist |-> conv(currentWaist, inToCm),
                         hip |-> conv(currentHip, inToCm)]
  /\ UNCHANGED <<currentStep, formData, ageStr, isLoading, loadingProgress,
                 timers, call>>

handleUnitToggle(newSystem) ==
  /\ currentStep \in {3, 4}
  /\ IF newSystem = unitSystem
     THEN UNCHANGED <<unitSystem, tempInputs, errors, nDetours>>
     ELSE LET currentWeight == parseState(tempInputs.weight)
              currentHeightCm == parseState(tempInputs.heightCm)
              currentHeightFt == parseState(tempInputs.heightFt)
              currentHeightIn == parseState(tempInputs.heightIn)
              currentNeck == parseState(tempInputs.neck)
              currentWaist == parseState(tempInputs.waist)
              currentHip == parseState(tempInputs.hip)
              ftin == cmToFtIn(currentHeightCm)
              heightCmConverted == ftInToCm(currentHeightFt, currentHeightIn)
              conv(x, f(_)) == IF x # NULL THEN formatForInput(f(x), 1) ELSE Empty
          IN  /\ nDetours < MaxDetours
              /\ nDetours' = nDetours + 1
              /\ unitSystem' = newSystem
              /\ errors' = NoErrors
              /\ tempInputs' =
                   IF newSystem = "imperial"
                   THEN [weight |-> conv(currentWeight, kgToLbs),
                         heightCm |-> Empty,
                         heightFt |-> IF currentHeightCm # NULL
                                      THEN formatForInput(ftin.ft, 0) ELSE Empty,
                         heightIn |-> IF currentHeightCm # NULL
                                      THEN formatForInput(ftin.inches, 1) ELSE Empty,
                         neck |-> conv(currentNeck, cmToIn),
                         waist |-> conv(currentWaist, cmToIn),
                         hip |-> conv(currentHip, cmToIn)]
                   ELSE [weight |-> conv(currentWeight, lbsToKg),
                         heightCm |-> IF heightCmConverted # NULL
                                      THEN formatForInput(heightCmConverted, 1)
                                      ELSE Empty,
                         heightFt |-> Empty,
                         heightIn |-> Empty,
                         neck |-> conv(currentNeck, inToCm),
                         waist |-> conv(currentWaist, inToCm),
                         hip |-> conv(currentHip, inToCm)]
  /\ UNCHANGED <<currentStep, formData, ageStr, isLoading, loadingProgress,
                 timers, call>>

\* handleTempInputChange that also stores the parsed text in the record
handleTempInputChange_commit(name, value) ==
  /\ name \in InputsAt(currentStep, unitSystem)
  /\ tempInputs' = [tempInputs EXCEPT ![name] = value]
  /\ errors' = [errors EXCEPT ![name] = validateInputOnChange(name, value, unitSystem)]
  /\ formData' =
       CASE name = "weight" -> [formData EXCEPT !.weightKg = parseState(value)]
         [] name = "neck" -> [formData EXCEPT !.neckCm = parseState(value)]
         [] name = "waist" -> [formData EXCEPT !.waistCm = parseState(value)]
         [] name = "hip" -> [formData EXCEPT !.hipCm = parseState(value)]
         [] OTHER -> [formData EXCEPT !.heightCm = parseState(value)]
  /\ UNCHANGED <<currentStep, unitSystem, ageStr, isLoading,
                 loadingProgress, timers, nDetours, call>>

handleTempInputChange(name, value) ==
  /\ name \in InputsAt(currentStep, unitSystem)
  /\ tempInputs' = [tempInputs EXCEPT ![name] = value]
  /\ errors' = [errors EXCEPT ![name] = validateInputOnChange(name, value, unitSystem)]
  /\ UNCHANGED <<currentStep, unitSystem, formData, ageStr, isLoading,
                 loadingProgress, timers, nDetours, call>>

handleAgeInputChange(value) ==
  /\ currentStep = 2
  /\ ageStr' = value
  /\ errors' = [errors EXCEPT !["age"] = validateInputOnChange("age", value, unitSystem)]
  /\ UNCHANGED <<currentStep, unitSystem, formData, tempInputs, isLoading,
                 loadingProgress, timers, nDetours, call>>

handleAgeSliderChange(value) ==
  /\ currentStep = 2
  /\ ageStr' = value
  /\ errors' = [errors EXCEPT !["age"] = validateInputOnChange("age", value, unitSystem)]
  /\ UNCHANGED <<currentStep, unitSystem, formData, tempInputs, isLoading,
                 loadingProgress, timers, nDetours, call>>

(* ------------------------------- timers ------------------------------- *)
\* ResetCells without setLoadingProgress(0): the bar stays at the 100 the
\* navigation timeout left
ResetCells_keepProgress ==
  [currentStep |-> 0, formData |-> InitFormData, tempInputs |-> InitTempInputs,
   ageStr |-> Empty, errors |-> NoErrors, isLoading |-> FALSE,
   unitSystem |-> "metric", loadingProgress |-> 100]

\* the cells the callback of handleReset sets
ResetCells ==
  [currentStep |-> 0, formData |-> InitFormData, tempInputs |-> InitTempInputs,
   ageStr |-> Empty, errors |-> NoErrors, isLoading |-> FALSE,
   unitSystem |-> "metric", loadingProgress |-> 0]

\* the oldest pending 300 ms callback runs
TimerFire ==
  /\ timers # <<>>
  /\ LET t == Head(timers)
     IN  /\ timers' = Tail(timers)
         /\ IF t.kind = "reset"
            THEN /\ currentStep' = ResetCells.currentStep
                 /\ formData' = ResetCells.formData
                 /\ tempInputs' = ResetCells.tempInputs
                 /\ ageStr' = ResetCells.ageStr
                 /\ errors' = ResetCells.errors
                 /\ isLoading' = ResetCells.isLoading
                 /\ unitSystem' = ResetCells.unitSystem
                 /\ loadingProgress' = ResetCells.loadingProgress
                 /\ nDetours' = 0
            ELSE /\ currentStep' = t.to
                 /\ errors' = IF t.kind = "back" THEN NoErrors ELSE errors
                 /\ UNCHANGED <<formData, tempInputs, ageStr, isLoading,
                                unitSystem, loadingProgress, nDetours>>
  /\ UNCHANGED call

\* The loading effect runs while isLoading and currentStep = 8; its cleanup
\* clears its timers whenever either changes.  Its progress interval:
ProgressLevels == {50, 100}

ProgressTick ==
  /\ isLoading
  /\ currentStep = 8
  /\ \E p \in ProgressLevels :
       /\ p > loadingProgress
       /\ loadingProgress' = p
  /\ UNCHANGED <<currentStep, unitSystem, formData, tempInputs, ageStr,
                 errors, isLoading, timers, nDetours, call>>

\* Its navigation timeout (5000 ms): every 300 ms callback that was pending
\* when the effect started has run by then, and the Loading step renders
\* nothing that schedules another.
NavigationTimeout ==
  /\ isLoading
  /\ currentStep = 8
  /\ timers = <<>>
  /\ isLoading' = FALSE
  /\ loadingProgress' = 100
  /\ timers' = <<Timer("step", 9)>>
  /\ UNCHANGED <<currentStep, unitSystem, formData, tempInputs, ageStr,
                 errors, nDetours, call>>

Next ==
  \/ handleStart
  \/ \E sex \in {"male", "female"} : SelectSex(sex)
  \/ \E value \in AgeTexts : handleAgeInputChange(value)
  \/ \E value \in SliderTexts : handleAgeSliderChange(value)
  \/ \E name \in ErrKeys \ {"sex", "age"} :
       \E value \in TextsFor(name, unitSystem) :
         handleTempInputChange(name, value)
  \/ \E newSystem \in {"metric", "imperial"} : handleUnitToggle(newSystem)
  \/ NextClick
  \/ handleKeyDown
  \/ handleBack
  \/ handleReset
  \/ TimerFire
  \/ ProgressTick
  \/ NavigationTimeout

Spec == Init /\ [][Next]_vars

\* The callbacks of setTimeout and setInterval run without any user input:
\* a pending 300 ms callback, the progress interval and the navigation
\* timeout of the loading effect are taken whenever they stay enabled.
FairSpec ==
  /\ Spec
  /\ WF_vars(TimerFire)
  /\ WF_vars(ProgressTick)
  /\ WF_vars(NavigationTimeout)

(* ------------------------ the Turkish variant -------------------------- *)
\* The first component of the file, as functions on the record w of its state
\* cells (currentStep, unitSystem, formData, tempInputs, ageStr, errors,
\* isLoading, loadingProgress and the pending 300 ms callbacks).  Its strings
\* are written with their non-ASCII letters transliterated.  parseState,
\* formatForInput, the converters, the results memo and getBfCategory of the
\* two components have the same text and are the operators above.
TR_errorInvalidNumber == <<"Gecersiz sayi.">>

TR_errorRange(min, max) == <<"Aralik: ">> \o min \o <<"-">> \o max

\* TR.errorSelectGender ... TR.errorHipRequired, by the errors key that
\* handleNext stores them under
TR_errorRequired(key) ==
  CASE key = "sex" -> <<"Lutfen bir cinsiyet secin.">>
    [] key = "age" -> <<"Yas gerekli.">>
    [] key = "weight" -> <<"Kilo gerekli.">>
    [] key = "heightCm" -> <<"Boy (cm) gerekli.">>
    [] key = "heightFt" -> <<"Fit gerekli.">>
    [] key = "heightIn" -> <<"Inc gerekli.">>
    [] key = "neck" -> <<"Boyun cevresi gerekli.">>
    [] key = "waist" -> <<"Bel cevresi gerekli.">>
    [] key = "hip" -> <<"Kalca cevresi gerekli.">>

TR_validateRange(min, max, vStr) ==
  IF vStr = Empty \/ vStr = <<"-">> THEN Empty
  ELSE LET v == parseFloat(replaceCommas(vStr))
       IN  IF isNaN(v) THEN TR_errorInvalidNumber
           ELSE IF Lt(v, min) \/ Gt(v, max)
                THEN TR_errorRange(formatForInput(min, IF IsInteger(min) THEN 0 ELSE 1),
                                   formatForInput(max, IF IsInteger(max) THEN 0 ELSE 1))
           ELSE Empty

\* validateInputOnChange: the message it stores under errors[name]; the min
\* and max of its switch are those of boundsOf
TR_validateInputOnChange(name, value, unit) ==
  IF name \in {"age", "weight", "heightCm", "heightFt", "heightIn", "neck",
               "waist", "hip"}
  THEN TR_validateRange(boundsOf(name, unit).min, boundsOf(name, unit).max, value)
  ELSE Empty

\* what a handler of a control that is not rendered, or is disabled, yields
TR_NotOffered == [currentStep |-> -1]

\* the switch of handleNext: [ok, errs, fd] = isValid, currentErrors and the
\* record after the setFormData of the case
TR_NextSwitch(w) ==
  LET isValid0 == \A key \in ErrKeys : w.errors[key] = Empty
      metric == w.unitSystem = "metric"
      ErrOrTR(key) == IF w.errors[key] # Empty THEN w.errors[key]
                      ELSE TR_errorRequired(key)
      circKey == IF w.currentStep = 5 THEN "neck"
                 ELSE IF w.currentStep = 6 THEN "waist" ELSE "hip"
      circCm == IF metric THEN parseState(w.tempInputs[circKey])
                ELSE inToCm(parseState(w.tempInputs[circKey]))
      ftBad == w.tempInputs.heightFt = Empty \/ w.errors["heightFt"] # Empty
      inBad == w.tempInputs.heightIn = Empty \/ w.errors["heightIn"] # Empty
      heightCmVal == IF metric THEN parseState(w.tempInputs.heightCm)
                     ELSE ftInToCm(parseState(w.tempInputs.heightFt),
                                   parseState(w.tempInputs.heightIn))
      Rejected(key) == [ok |-> FALSE, fd |-> w.formData,
                        errs |-> [NoErrors EXCEPT ![key] = ErrOrTR(key)]]
      Stored(fd) == [ok |-> isValid0, errs |-> NoErrors, fd |-> fd]
  IN  CASE w.currentStep = 1 ->
             IF w.formData.sex = "null"
             THEN [ok |-> FALSE, fd |-> w.formData,
                   errs |-> [NoErrors EXCEPT !["sex"] = TR_errorRequired("sex")]]
             ELSE Stored(w.formData)
        [] w.currentStep = 2 ->
             IF w.ageStr = Empty \/ w.errors["age"] # Empty
             THEN Rejected("age")
             ELSE Stored([w.formData EXCEPT !.age = parseState(w.ageStr)])
        [] w.currentStep = 3 ->
             IF w.tempInputs.weight = Empty \/ w.errors["weight"] # Empty
             THEN Rejected("weight")
             ELSE Stored([w.formData EXCEPT !.weightKg =
                            IF metric THEN parseState(w.tempInputs.weight)
                            ELSE lbsToKg(parseState(w.tempInputs.weight))])
        [] w.currentStep = 4 /\ metric ->
             IF w.tempInputs.heightCm = Empty \/ w.errors["heightCm"] # Empty
             THEN Rejected("heightCm")
             ELSE Stored(IF isValid0 /\ heightCmVal # NULL
                         THEN [w.formData EXCEPT !.heightCm = heightCmVal]
                         ELSE w.formData)
        [] w.currentStep = 4 /\ ~metric ->
             IF ftBad \/ inBad
             THEN [ok |-> FALSE, fd |-> w.formData,
                   errs |-> [NoErrors EXCEPT
                               !["heightFt"] = IF ftBad THEN ErrOrTR("heightFt") ELSE Empty,
                               !["heightIn"] = IF inBad THEN ErrOrTR("heightIn") ELSE Empty]]
             ELSE Stored(IF isValid0 /\ heightCmVal # NULL
                         THEN [w.formData EXCEPT !.heightCm = heightCmVal]
                         ELSE w.formData)
        [] w.currentStep \in {5, 6, 7} ->
             IF w.tempInputs[circKey] = Empty \/ w.errors[circKey] # Empty
             THEN Rejected(circKey)
             ELSE Stored(IF w.currentStep = 5 THEN [w.formData EXCEPT !.neckCm = circCm]
                         ELSE IF w.currentStep = 6 THEN [w.formData EXCEPT !.waistCm = circCm]
                         ELSE [w.formData EXCEPT !.hipCm = circCm])
        [] OTHER -> Stored(w.formData)

TR_handleNext(w) ==
  LET r == TR_NextSwitch(w)
      accepted == r.ok /\ \A key \in ErrKeys : r.errs[key] = Empty
      nextStep == NextStepOf(w.currentStep, w.formData.sex)
  IN  IF accepted
      THEN [w EXCEPT !.formData = r.fd,
                     !.errors = r.errs,
                     !.isLoading = (w.isLoading \/ nextStep = 8),
                     !.loadingProgress = IF nextStep = 8 THEN 0 ELSE @,
                     !.timers = Append(@, Timer("step", nextStep))]
      ELSE [w EXCEPT !.formData = r.fd, !.errors = r.errs]

\* the Next button (rendered at steps 1..7, with its disabled attribute)
TR_NextClick(w) ==
  IF /\ w.currentStep \in 1..7
     /\ ~w.isLoading
     /\ ~(w.currentStep = 1 /\ w.formData.sex = "null")
     /\ \A key \in ErrKeys : w.errors[key] = Empty
  THEN TR_handleNext(w)
  ELSE TR_NotOffered

\* handleKeyDown: Enter in an input of steps 2..7
TR_handleKeyDown(w) ==
  IF w.currentStep \in 2..7 THEN TR_handleNext(w) ELSE TR_NotOffered

\* the Back button (rendered at steps 1..7, disabled while loading)
TR_handleBack(w) ==
  IF w.currentStep \in 1..7 /\ ~w.isLoading
  THEN [w EXCEPT !.timers =
          Append(@, Timer("back", PrevStepOf(w.currentStep, w.formData.sex)))]
  ELSE TR_NotOffered

\* the start button of the Welcome step
TR_handleStart(w) ==
  IF w.currentStep = 0
  THEN [w EXCEPT !.timers = Append(@, Timer("step", 1))]
  ELSE TR_NotOffered

\* the reset button of the Results step (rendered only with a result)
TR_handleReset(w) ==
  IF w.currentStep = 9 /\ ~resultsOf(w.formData).isNull
  THEN [w EXCEPT !.timers = Append(@, Timer("reset", 0))]
  ELSE TR_NotOffered

\* the two cards of the Sex step
TR_SelectSex(w, sex) ==
  IF w.currentStep = 1
  THEN [w EXCEPT !.formData = [@ EXCEPT !.sex = sex]]
  ELSE TR_NotOffered

TR_handleUnitToggle(w, newSystem) ==
  LET currentWeight == parseState(w.tempInputs.weight)
      currentHeightCm == parseState(w.tempInputs.heightCm)
      currentHeightFt == parseState(w.tempInputs.heightFt)
      currentHeightIn == parseState(w.tempInputs.heightIn)
      currentNeck == parseState(w.tempInputs.neck)
      currentWaist == parseState(w.tempInputs.waist)
      currentHip == parseState(w.tempInputs.hip)
      ftin == cmToFtIn(currentHeightCm)
      heightCmConverted == ftInToCm(currentHeightFt, currentHeightIn)
      conv(x, f(_)) == IF x # NULL THEN formatForInput(f(x), 1) ELSE Empty
  IN  IF w.currentStep \notin {3, 4} THEN TR_NotOffered
      ELSE IF newSystem = w.unitSystem THEN w
      ELSE [w EXCEPT
              !.unitSystem = newSystem,
              !.errors = NoErrors,
              !.tempInputs =
                 IF newSystem = "imperial"
                 THEN [weight |-> conv(currentWeight, kgToLbs),
                       heightCm |-> Empty,
                       heightFt |-> IF currentHeightCm # NULL
                                    THEN formatForInput(ftin.ft, 0) ELSE Empty,
                       heightIn |-> IF currentHeightCm # NULL
                                    THEN formatForInput(ftin.inches, 1) ELSE Empty,
                       neck |-> conv(currentNeck, cmToIn),
                       waist |-> conv(currentWaist, cmToIn),
                       hip |-> conv(currentHip, cmToIn)]
                 ELSE [weight |-> conv(currentWeight, lbsToKg),
                       heightCm |-> IF heightCmConverted # NULL
                                    THEN formatForInput(heightCmConverted, 1)
                                    ELSE Empty,
                       heightFt |-> Empty,
                       heightIn |-> Empty,
                       neck |-> conv(currentNeck, inToCm),
                       waist |-> conv(currentWaist, inToCm),
                       hip |-> conv(currentHip, inToCm)]]

TR_handleTempInputChange(w, name, value) ==
  IF name \in InputsAt(w.currentStep, w.unitSystem)
  THEN [w EXCEPT !.tempInputs = [@ EXCEPT ![name] = value],
                 !.errors = [@ EXCEPT ![name] =
                               TR_validateInputOnChange(name, value, w.unitSystem)]]
  ELSE TR_NotOffered

TR_handleAgeInputChange(w, value) ==
  IF w.currentStep = 2
  THEN [w EXCEPT !.ageStr = value,
                 !.errors = [@ EXCEPT !["age"] =
                               TR_validateInputOnChange("age", value, w.unitSystem)]]
  ELSE TR_NotOffered

TR_handleAgeSliderChange(w, value) ==
  IF w.currentStep = 2
  THEN [w EXCEPT !.ageStr = value,
                 !.errors = [@ EXCEPT !["age"] =
                               TR_validateInputOnChange("age", value, w.unitSystem)]]
  ELSE TR_NotOffered

\* TR_TimerFire whose Back callback leaves out setErrors({})
TR_TimerFire_keepErrors(w) ==
  IF w.timers = <<>> THEN TR_NotOffered
  ELSE LET t == Head(w.timers)
       IN  IF t.kind = "reset"
           THEN [currentStep |-> 0, unitSystem |-> "metric",
                 formData |-> InitFormData, tempInputs |-> InitTempInputs,
                 ageStr |-> Empty, errors |-> NoErrors, isLoading |-> FALSE,
                 loadingProgress |-> 0, timers |-> Tail(w.timers)]
           ELSE [w EXCEPT !.currentStep = t.to,
                          !.timers = Tail(@)]

\* the oldest pending 300 ms callback runs
TR_TimerFire(w) ==
  IF w.timers = <<>> THEN TR_NotOffered
  ELSE LET t == Head(w.timers)
       IN  IF t.kind = "reset"
           THEN [currentStep |-> 0, unitSystem |-> "metric",
                 formData |-> InitFormData, tempInputs |-> InitTempInputs,
                 ageStr |-> Empty, errors |-> NoErrors, isLoading |-> FALSE,
                 loadingProgress |-> 0, timers |-> Tail(w.timers)]
           ELSE [w EXCEPT !.currentStep = t.to,
                          !.errors = IF t.kind = "back" THEN NoErrors ELSE @,
                          !.timers = Tail(@)]

\* the progress interval of the loading effect
TR_ProgressTick(w, p) ==
  IF w.isLoading /\ w.currentStep = 8 /\ p > w.loadingProgress
  THEN [w EXCEPT !.loadingProgress = p]
  ELSE TR_NotOffered

\* its navigation timeout (5000 ms)
TR_NavigationTimeout(w) ==
  IF w.isLoading /\ w.currentStep = 8 /\ w.timers = <<>>
  THEN [w EXCEPT !.isLoading = FALSE,
                 !.loadingProgress = 100,
                 !.timers = <<Timer("step", 9)>>]
  ELSE TR_NotOffered

\* the state of the component after construction
TR_Init ==
  [currentStep |-> 0, unitSystem |-> "metric", formData |-> InitFormData,
   tempInputs |-> InitTempInputs, ageStr |-> Empty, errors |-> NoErrors,
   isLoading |-> FALSE, loadingProgress |-> 0, timers |-> <<>>]

(* ------------------- validateRange as a pure function ----------------- *)
Alphabet == {"0", "1", "5", "8", ",", ".", "-", "a"}

RECURSIVE TextsUpTo(_)
TextsUpTo(len) ==
  IF len = 0 THEN {<<>>}
  ELSE LET shorter == TextsUpTo(len - 1)
       IN  shorter \cup {Append(t, c) : t \in {u \in shorter : Len(u) = len - 1},
                                         c \in Alphabet}

\* the texts of the documented examples of validateRange
ExampleTexts == {<<"1", "5", ",", "5">>, <<"1", "4">>, <<>>}

CallTexts == TextsUpTo(MaxLen) \cup ExampleTexts

\* the fields validateInputOnChange is called for in each unit system
FieldsIn(unit) ==
  {"age", "weight", "neck", "waist", "hip"}
    \cup (IF unit = "metric" THEN {"heightCm"} ELSE {"heightFt", "heightIn"})

InitValidate ==
  /\ currentStep = 0
  /\ unitSystem = "metric"
  /\ formData = InitFormData
  /\ tempInputs = InitTempInputs
  /\ ageStr = Empty
  /\ errors = NoErrors
  /\ isLoading = FALSE
  /\ loadingProgress = 0
  /\ timers = <<>>
  /\ nDetours = 0
  /\ \E unit \in {"metric", "imperial"} :
       \E name \in FieldsIn(unit) :
         \E vStr \in CallTexts :
           call = [name |-> name, unit |-> unit,
                   min |-> boundsOf(name, unit).min,
                   max |-> boundsOf(name, unit).max,
                   vStr |-> vStr, ret |-> Empty, done |-> FALSE]

validateRangeCall ==
  /\ ~call.done
  /\ call' = [call EXCEPT !.ret = validateRange(call.min, call.max, call.vStr),
                          !.done = TRUE]
  /\ UNCHANGED wizardVars

NextValidate == validateRangeCall

SpecValidate == InitValidate /\ [][NextValidate]_vars

(* ------------------- the results memo as a pure function -------------- *)
\* Records the memo is evaluated on: the fields at, inside and outside their
\* Data Model domains (a zero or negative number, a neck wider than the
\* waist), and the documented example (male, 30, 80 kg, 180 cm, 38, 85).
SexValues == {"male", "female", "null"}

AgeValues == {NULL, Int2Num(15), Int2Num(30)}

WeightValues == {Int2Num(-80), Int2Num(0), Int2Num(30), Int2Num(80)}

HeightValues == {Int2Num(0), Int2Num(180), Int2Num(250)}

NeckValues == {Int2Num(38), Int2Num(90)}

WaistValues == {Int2Num(0), Int2Num(38), Int2Num(85)}

HipValues == {NULL, Int2Num(0), Int2Num(95)}

FormDataValues ==
  [sex : SexValues, age : AgeValues, weightKg : WeightValues,
   heightCm : HeightValues, neckCm : NeckValues, waistCm : WaistValues,
   hipCm : HipValues]

\* the record of the documented example
ExampleFormData ==
  [sex |-> "male", age |-> Int2Num(30), weightKg |-> Int2Num(80),
   heightCm |-> Int2Num(180), neckCm |-> Int2Num(38), waistCm |-> Int2Num(85),
   hipCm |-> NULL]

InitEstimate ==
  /\ currentStep = 0
  /\ unitSystem = "metric"
  /\ formData \in FormDataValues
  /\ tempInputs = InitTempInputs
  /\ ageStr = Empty
  /\ errors = NoErrors
  /\ isLoading = FALSE
  /\ loadingProgress = 0
  /\ timers = <<>>
  /\ nDetours = 0
  /\ call = [isNull |-> TRUE, values |-> NoValues, userCategory |-> "Unknown",
             done |-> FALSE]

\* one evaluation of the memo on formData, and of the category the results
\* screen derives from its average
resultsMemo ==
  /\ ~call.done
  /\ \E values \in {valuesOf(formData)} :
       call' = [isNull |-> resultsOf(formData).isNull,
                values |-> values,
                userCategory |-> getBfCategory(values.AVERAGE_BF, formData.sex),
                done |-> TRUE]
  /\ UNCHANGED wizardVars

NextEstimate == resultsMemo

SpecEstimate == InitEstimate /\ [][NextEstimate]_vars

(* --------------- handleUnitToggle on texts that are valid ------------- *)
\* Texts validateInputOnChange accepts in a unit system: for each field the
\* two ends of its range (in imperial the one-decimal texts next to the
\* converted ends) and a value between; for the metric height also 182.8
\* cm, which is 5 ft 11.97 in.
ToggleTexts(name, unit) ==
  LET metric == unit = "metric"
  IN  CASE name = "weight" ->
             IF metric THEN {<<"3", "0">>, <<"8", "0">>, <<"3", "0", "0">>}
             ELSE {<<"6", "6", ".", "2">>, <<"1", "7", "6", ".", "4">>,
                   <<"6", "6", "1", ".", "3">>}
        [] name = "heightCm" ->
             IF metric THEN {<<"1", "0", "0">>, <<"1", "8", "0">>,
                             <<"1", "8", "2", ".", "8">>, <<"2", "5", "0">>}
             ELSE {Empty}
        [] name = "heightFt" ->
             IF metric THEN {Empty} ELSE {<<"3">>, <<"5">>, <<"8">>}
        [] name = "heightIn" ->
             IF metric THEN {Empty}
             ELSE {<<"0">>, <<"1", "0", ".", "9">>, <<"1", "1", ".", "9">>}
        [] name = "neck" ->
             IF metric THEN {<<"2", "0">>, <<"3", "8", ".", "1">>, <<"7", "0">>}
             ELSE {<<"7", ".", "9">>, <<"1", "5">>, <<"2", "7", ".", "5">>}
        [] name = "waist" ->
             IF metric THEN {<<"4", "0">>, <<"8", "5">>, <<"2", "0", "0">>}
             ELSE {<<"1", "5", ".", "8">>, <<"3", "3", ".", "5">>,
                   <<"7", "8", ".", "7">>}
        [] name = "hip" ->
             IF metric THEN {<<"5", "0">>, <<"9", "5">>, <<"2", "0", "0">>}
             ELSE {<<"1", "9", ".", "7">>, <<"3", "7", ".", "4">>,
                   <<"7", "8", ".", "7">>}

ToggleInputs(unit) ==
  [weight : ToggleTexts("weight", unit),
   heightCm : ToggleTexts("heightCm", unit),
   heightFt : ToggleTexts("heightFt", unit),
   heightIn : ToggleTexts("heightIn", unit),
   neck : ToggleTexts("neck", unit),
   waist : ToggleTexts("waist", unit),
   hip : ToggleTexts("hip", unit)]

\* the record handleNext has stored, step by step, from these texts (an age
\* of 30, female so that the hip was asked for)
CommittedOf(inputs, unit) ==
  LET metric == unit = "metric"
      cm(text) == IF metric THEN parseState(text) ELSE inToCm(parseState(text))
  IN  [sex |-> "female",
       age |-> Int2Num(30),
       weightKg |-> IF metric THEN parseState(inputs.weight)
                    ELSE lbsToKg(parseState(inputs.weight)),
       heightCm |-> IF metric THEN parseState(inputs.heightCm)
                    ELSE ftInToCm(parseState(inputs.heightFt),
                                  parseState(inputs.heightIn)),
       neckCm |-> cm(inputs.neck),
       waistCm |-> cm(inputs.waist),
       hipCm |-> cm(inputs.hip)]

\* The wizard back at the Height step after every field was entered in one
\* unit system; call keeps the texts and the unit system of that moment.
InitToggle ==
  /\ currentStep = 4
  /\ unitSystem \in {"metric", "imperial"}
  /\ tempInputs \in ToggleInputs(unitSystem)
  /\ formData = CommittedOf(tempInputs, unitSystem)
  /\ ageStr = <<"3", "0">>
  /\ errors = NoErrors
  /\ isLoading = FALSE
  /\ loadingProgress = 0
  /\ timers = <<>>
  /\ nDetours = 0
  /\ call = [inputs |-> tempInputs, unit |-> unitSystem]

NextToggle ==
  \E newSystem \in {"metric", "imperial"} : handleUnitToggle(newSystem)

SpecToggle == InitToggle /\ [][NextToggle]_vars

(* ------------- the results memo on records inside the domains --------- *)
\* the two bounds validateInputOnChange sets for a field (metric), and the
\* value of the documented example between them
DomainValues(name, example) ==
  {boundsOf(name, "metric").min, Int2Num(example), boundsOf(name, "metric").max}

\* the complete records over these values: hipCm is set for female, and
\* set or null for male
DomainFormData ==
  {fd \in [sex : {"male", "female"},
           age : DomainValues("age", 30),
           weightKg : DomainValues("weight", 80),
           heightCm : DomainValues("heightCm", 180),
           neckCm : DomainValues("neck", 38),
           waistCm : DomainValues("waist", 85),
           hipCm : DomainValues("hip", 95) \cup {NULL}] :
     fd.sex = "female" => fd.hipCm # NULL}

InitDomain ==
  /\ currentStep = 0
  /\ unitSystem = "metric"
  /\ formData \in DomainFormData
  /\ tempInputs = InitTempInputs
  /\ ageStr = Empty
  /\ errors = NoErrors
  /\ isLoading = FALSE
  /\ loadingProgress = 0
  /\ timers = <<>>
  /\ nDetours = 0
  /\ call = [isNull |-> TRUE, values |-> NoValues, userCategory |-> "Unknown",
             done |-> FALSE]

NextDomain == resultsMemo

SpecDomain == InitDomain /\ [][NextDomain]_vars

(* ------------------- getBfCategory as a pure function ------------------ *)
\* body fat percentages from 0 to 45 in steps of a quarter, and null
BfValues == {Num(i, 4) : i \in 0..180} \cup {NULL}

InitCategory ==
  /\ currentStep = 0
  /\ unitSystem = "metric"
  /\ formData = InitFormData
  /\ tempInputs = InitTempInputs
  /\ ageStr = Empty
  /\ errors = NoErrors
  /\ isLoading = FALSE
  /\ loadingProgress = 0
  /\ timers = <<>>
  /\ nDetours = 0
  /\ \E bfPercentage \in BfValues :
       \E sex \in SexValues :
         call = [bfPercentage |-> bfPercentage, sex |-> sex,
                 ret |-> "Unknown", done |-> FALSE]

getBfCategoryCall ==
  /\ ~call.done
  /\ call' = [call EXCEPT !.ret = getBfCategory(call.bfPercentage, call.sex),
                          !.done = TRUE]
  /\ UNCHANGED wizardVars

NextCategory == getBfCategoryCall

SpecCategory == InitCategory /\ [][NextCategory]_vars

(* ------------------------------- claims ------------------------------- *)
InRange(x, lo, hi) == Le(Int2Num(lo), x) /\ Le(x, Int2Num(hi))

InDomain(x, lo, hi) == x = NULL \/ InRange(x, lo, hi)

\* C1: in every reachable state each non-null field of formData lies in its
\* Data Model domain (age 15..100, weightKg 30..300, heightCm 100..250,
\* neckCm 20..70, waistCm 40..200, hipCm 50..200).
C1_FormDataInDomain ==
  /\ InDomain(formData.age, 15, 100)
  /\ InDomain(formData.weightKg, 30, 300)
  /\ InDomain(formData.heightCm, 100, 250)
  /\ InDomain(formData.neckCm, 20, 70)
  /\ InDomain(formData.waistCm, 40, 200)
  /\ InDomain(formData.hipCm, 50, 200)

\* C2: at the Results step every field required for the selected sex is
\* non-null, so that results is not null and no "Calculation Error" shows.
C2_CompleteAtResults ==
  currentStep = 9 =>
    /\ formData.sex # "null"
    /\ formData.age # NULL
    /\ formData.weightKg # NULL
    /\ formData.heightCm # NULL
    /\ formData.neckCm # NULL
    /\ formData.waistCm # NULL
    /\ (formData.sex = "female" => formData.hipCm # NULL)
    /\ ~results.isNull

\* C3: results is null exactly when the record is incomplete (sex, age,
\* weightKg, heightCm, neckCm or waistCm null, or female with hipCm null);
\* a null hipCm does not make a male record incomplete.
C3_NoResultIffIncomplete ==
  LET missing == {f \in {"age", "weightKg", "heightCm", "neckCm", "waistCm"} :
                    formData[f] = NULL}
  IN  /\ results.isNull <=>
           \/ formData.sex = "null"
           \/ missing # {}
           \/ (formData.sex = "female" /\ formData.hipCm = NULL)
      /\ (formData.sex = "male" /\ missing = {}) => ~results.isNull

C3_Witness ==
  /\ formData.sex = "male"
  /\ formData.hipCm = NULL
  /\ formData.waistCm # NULL
  /\ ~results.isNull

\* the step that follows `step` in the linear sequence for `sex`
Forward(step, sex) == IF step = 6 /\ sex = "male" THEN 8 ELSE step + 1

\* a 300 ms callback of the given kind is scheduled in this step
Scheduled(kind) ==
  /\ Len(timers') = Len(timers) + 1
  /\ timers'[Len(timers')].kind = kind

\* C4: forward progression is linear (Start goes to Sex, an accepted Next to
\* the following step, skipping Hip for male; Loading goes to Results), and
\* in every reachable state the wizard is at the Hip step only if sex is
\* female.
C4_LinearProgression ==
  /\ [][Scheduled("step") =>
          timers'[Len(timers')].to = Forward(currentStep, formData.sex)]_vars
  /\ [](currentStep = 7 => formData.sex = "female")

\* the oldest pending callback, of the given kind, runs in this step
Fires(kind) ==
  /\ timers # <<>>
  /\ Head(timers).kind = kind
  /\ timers' = Tail(timers)

\* C5: Back is offered at the steps Sex..Hip only; pressed at a step it
\* schedules the return to the step just before it and, when that return
\* runs, the wizard is at that step; it never puts a male user on the Hip
\* step, and neither the press nor the return changes formData.
C5_BackToPreceding ==
  /\ [][Scheduled("back") =>
          /\ currentStep \in 1..7
          /\ timers'[Len(timers')].to = currentStep - 1
          /\ formData' = formData]_vars
  /\ [][Fires("back") =>
          /\ currentStep' = Head(timers).to
          /\ ~(currentStep' = 7 /\ formData'.sex = "male")
          /\ formData' = formData]_vars

C5_Witness ==
  /\ nDetours > 0
  /\ currentStep = 5
  /\ timers = <<>>
  /\ formData.waistCm # NULL

\* C6: when the callback of Reset has run, the wizard state is the initial
\* state (step Welcome, every formData field null, ageStr and all tempInputs
\* empty, no errors, metric, not loading, progress 0), so that the engine
\* has no result until a new record is entered.
C6_ResetRestoresInit ==
  [][Fires("reset") =>
       /\ currentStep' = 0
       /\ formData' = InitFormData
       /\ ageStr' = <<>>
       /\ tempInputs' = InitTempInputs
       /\ errors' = NoErrors
       /\ unitSystem' = "metric"
       /\ isLoading' = FALSE
       /\ loadingProgress' = 0
       /\ resultsOf(formData') = NoResult]_vars

C6_Witness ==
  /\ currentStep = 0
  /\ formData = InitFormData
  /\ timers # <<>>
  /\ Head(timers).kind = "reset"

\* the field whose input is typed into in this step, if any
TypedInto(name) ==
  IF name = "age"
  THEN \E value \in AgeTexts \cup SliderTexts :
         handleAgeInputChange(value) \/ handleAgeSliderChange(value)
  ELSE \E value \in TextsFor(name, unitSystem) :
         handleTempInputChange(name, value)

\* C10: typing into an input changes only the raw text of that field and its
\* errors entry; formData, currentStep and unitSystem, every other raw text
\* and every other errors entry stay as they were.
C10_TypingFrame ==
  [][\A name \in ErrKeys \ {"sex"} :
       TypedInto(name) =>
         /\ formData' = formData
         /\ currentStep' = currentStep
         /\ unitSystem' = unitSystem
         /\ \A key \in ErrKeys \ {name} : errors'[key] = errors[key]
         /\ \A key \in DOMAIN tempInputs \ {name} :
              tempInputs'[key] = tempInputs[key]
         /\ name # "age" => ageStr' = ageStr]_vars

C10_Witness ==
  /\ tempInputs.waist = <<"3", "0", "0">>
  /\ errors["waist"] # Empty
  /\ formData.waistCm = NULL
  /\ formData.neckCm # NULL

\* the call got a "Range: ..." message
IsRangeMsg(msg) == msg # Empty /\ Head(msg) = "Range: "

\* C7: validateRange(min, max, s) returns no error when s is empty or a lone
\* "-"; otherwise, with commas read as decimal points and v the parsed
\* value, it returns no error exactly when min <= v <= max and the range
\* error when v < min or v > max.  validateRange(15,100,"15,5") and
\* validateRange(15,100,"") return no error, validateRange(15,100,"14")
\* returns the range error.
C7_ValidateRangeClassifies ==
  call.done =>
    LET v == parseFloat(replaceCommas(call.vStr))
        incomplete == call.vStr \in {<<>>, <<"-">>}
    IN  /\ incomplete => call.ret = Empty
        /\ (~incomplete /\ ~isNaN(v)) =>
             /\ call.ret = Empty <=> (Le(call.min, v) /\ Le(v, call.max))
             /\ (Lt(v, call.min) \/ Gt(v, call.max)) => IsRangeMsg(call.ret)
        /\ (call.name = "age" /\ call.vStr = <<"1", "5", ",", "5">>) =>
             call.ret = <<>>
        /\ (call.name = "age" /\ call.vStr = <<"1", "4">>) =>
             call.ret = <<"Range: ", "1", "5", "-", "1", "0", "0">>
        /\ (call.name = "age" /\ call.vStr = <<>>) => call.ret = <<>>

C7_Witness ==
  /\ call.done
  /\ call.name = "age"
  /\ call.vStr = <<"1", "5", ",", "5">>
  /\ call.ret = <<>>

\* a decimal numeral: an optional sign, then digits with at most one "."
\* among them and at least one digit
WellFormed(s) ==
  LET signed == Len(s) >= 1 /\ s[1] \in {"-", "+"}
      body == IF signed THEN Tail(s) ELSE s
  IN  /\ \A i \in 1..Len(body) : IsDigit(body[i]) \/ body[i] = "."
      /\ Cardinality({i \in 1..Len(body) : body[i] = "."}) <= 1
      /\ \E i \in 1..Len(body) : IsDigit(body[i])

\* C8: for every text that is neither empty nor a lone "-" and that is not
\* a well-formed number once its commas are periods, validateRange returns
\* the invalid-number error (so never "no error").
C8_MalformedIsInvalid ==
  (/\ call.done
   /\ call.vStr \notin {<<>>, <<"-">>}
   /\ ~WellFormed(replaceCommas(call.vStr))) =>
      call.ret = MsgInvalidNumber

\* the text is one validateInputOnChange accepts as a value of the field
Accepted(name, unit, text) ==
  /\ parseState(text) # NULL
  /\ validateInputOnChange(name, text, unit) = Empty

\* C9: in imperial mode a value is accepted exactly when its conversion to
\* metric lies in the metric domain of the field: weight iff lbsToKg(v) in
\* [30,300]; neck, waist, hip iff inToCm(v) in [20,70], [40,200], [50,200];
\* feet and inches together iff ftInToCm(ft, in) in [100,250].
C9_UnitEquivalentBounds ==
  (call.done /\ call.unit = "imperial" /\ parseState(call.vStr) # NULL) =>
    LET v == parseState(call.vStr)
        ok == call.ret = Empty
    IN  CASE call.name = "weight" -> ok <=> InRange(lbsToKg(v), 30, 300)
          [] call.name = "neck" -> ok <=> InRange(inToCm(v), 20, 70)
          [] call.name = "waist" -> ok <=> InRange(inToCm(v), 40, 200)
          [] call.name = "hip" -> ok <=> InRange(inToCm(v), 50, 200)
          [] call.name = "heightFt" ->
               \A text \in CallTexts :
                 parseState(text) # NULL =>
                   ((ok /\ Accepted("heightIn", "imperial", text))
                      <=> InRange(ftInToCm(v, parseState(text)), 100, 250))
          [] OTHER -> TRUE

FiveEstimates == {"BMI_BF", "NAVY", "RFM", "CUN_BAE", "ECORE"}

\* the sum of the entries keys of a bundle, as a count of 1/Scale
RECURSIVE SumOf(_, _)
SumOf(values, keys) ==
  IF keys = {} THEN 0
  ELSE LET key == CHOOSE x \in keys : TRUE
       IN  ToFix(values[key]) + SumOf(values, keys \ {key})

PresentIn(values) == {k \in FiveEstimates : values[k] # NULL}

\* C11: the average of a bundle is the arithmetic mean (to the last digit
\* kept) of exactly the present ones of the five estimates, the BMI value
\* taking no part in the sum or the count, and the average is absent exactly
\* when none of the five is present.
C11_AverageIsMeanOfPresent ==
  call.done =>
    LET present == PresentIn(call.values)
        n == Cardinality(present)
        sum == SumOf(call.values, present)
        avg == ToFix(call.values.AVERAGE_BF)
    IN  /\ (call.values.AVERAGE_BF = NULL) <=> (present = {})
        /\ present # {} => n * avg <= sum /\ sum < n * avg + n

\* a bundle with the BMI value and some, not all, of the five estimates
C11_Witness ==
  /\ call.done
  /\ call.values.BMI_VAL # NULL
  /\ call.values.BMI_VAL # call.values.AVERAGE_BF
  /\ PresentIn(call.values) \notin {{}, FiveEstimates}

Zero == Int2Num(0)

\* C12: in the bundle of a complete record each entry is absent exactly
\* when its precondition is unmet: the BMI value iff heightCm <= 0; BMI-based
\* and CUN-BAE iff the BMI value is absent; ECORE iff the BMI value is absent
\* or <= 0; RFM iff heightCm <= 0 or waistCm <= 0; Navy iff heightCm <= 0 or
\* waistCm - neckCm <= 0 (male), waistCm + hipCm - neckCm <= 0 (female).
\* Absent is null, never the number 0, and each entry follows its own
\* precondition whatever happens to the others.
C12_AbsentIffPreconditionUnmet ==
  call.done /\ ~call.isNull =>
    LET v == call.values
        fd == formData
        girth == IF fd.sex = "male" THEN Sub(fd.waistCm, fd.neckCm)
                 ELSE Sub(Add(fd.waistCm, fd.hipCm), fd.neckCm)
    IN  /\ (v.BMI_VAL = NULL) <=> Le(fd.heightCm, Zero)
        /\ (v.BMI_BF = NULL) <=> (v.BMI_VAL = NULL)
        /\ (v.CUN_BAE = NULL) <=> (v.BMI_VAL = NULL)
        /\ (v.ECORE = NULL) <=> (v.BMI_VAL = NULL \/ Le(v.BMI_VAL, Zero))
        /\ (v.RFM = NULL) <=> (Le(fd.heightCm, Zero) \/ Le(fd.waistCm, Zero))
        /\ (v.NAVY = NULL) <=> (Le(girth, Zero) \/ Le(fd.heightCm, Zero))
        /\ \A k \in DOMAIN v : v[k] # NULL => v[k].k = "num"

\* a male record with the neck as wide as the waist or wider: Navy is absent
\* while the BMI value, RFM and ECORE are computed
C12_Witness ==
  /\ call.done
  /\ formData.sex = "male"
  /\ Le(Sub(formData.waistCm, formData.neckCm), Zero)
  /\ call.values.NAVY = NULL
  /\ call.values.BMI_VAL # NULL
  /\ call.values.RFM # NULL
  /\ call.values.ECORE # NULL

\* the values bf_r and bf_bmi have before Math.max, as exact fractions
RawRfm(fd) ==
  Sub(Int2Num(IF fd.sex = "male" THEN 64 ELSE 76),
      Mul(Int2Num(20), Div(fd.heightCm, fd.waistCm)))

RawBmiBf(fd) ==
  LET heightM == Div(fd.heightCm, Int2Num(100))
      bmi == Div(fd.weightKg, Mul(heightM, heightM))
  IN  Sub(Add(Mul(Num(12, 10), bmi), Mul(Num(23, 100), fd.age)),
          Add(IF fd.sex = "male" THEN Num(108, 10) ELSE Zero, Num(54, 10)))

\* C13: every present one of the five estimates and the average are >= 0,
\* and an estimate whose formula gives a negative number (RFM, BMI-based) is
\* stored as 0, neither negative nor absent.
C13_ClampedAtZero ==
  call.done =>
    LET v == call.values
    IN  /\ \A k \in FiveEstimates \cup {"AVERAGE_BF"} :
             v[k] # NULL => Ge(v[k], Zero)
        /\ v.RFM # NULL /\ Lt(RawRfm(formData), Zero) => v.RFM = Zero
        /\ v.BMI_BF # NULL /\ Lt(RawBmiBf(formData), Zero) => v.BMI_BF = Zero
        /\ ~call.isNull /\ Gt(formData.heightCm, Zero)
             /\ Gt(formData.waistCm, Zero) => v.RFM # NULL
        /\ ~call.isNull /\ Gt(formData.heightCm, Zero) => v.BMI_BF # NULL

\* a bundle whose RFM and BMI-based formulas both give negative numbers
C13_Witness ==
  /\ call.done
  /\ call.values.RFM = Zero
  /\ Lt(RawRfm(formData), Zero)
  /\ call.values.BMI_BF = Zero
  /\ Lt(RawBmiBf(formData), Zero)
  /\ call.values.AVERAGE_BF # NULL

\* the band of bf between the limits l1 < l2 < l3 < l4
Band(bf, l1, l2, l3, l4) ==
  CASE Lt(bf, Int2Num(l1)) -> "Contest Prep"
    [] Ge(bf, Int2Num(l1)) /\ Le(bf, Int2Num(l2)) -> "Athletic"
    [] Gt(bf, Int2Num(l2)) /\ Le(bf, Int2Num(l3)) -> "Average"
    [] Gt(bf, Int2Num(l3)) /\ Le(bf, Int2Num(l4)) -> "Overweight"
    [] Gt(bf, Int2Num(l4)) -> "Obese"

\* C14: getBfCategory returns Unknown exactly when bf or sex is null, and
\* otherwise the band of bf: for male below 8 Contest Prep, 8 to 15 Athletic,
\* above 15 to 21 Average, above 21 to 26 Overweight, above 26 Obese; for
\* female the same with the limits 14, 24, 33 and 39.
C14_CategoryBands ==
  call.done =>
    /\ (call.ret = "Unknown") <=> (call.bfPercentage = NULL \/ call.sex = "null")
    /\ call.bfPercentage # NULL /\ call.sex = "male"
         => call.ret = Band(call.bfPercentage, 8, 15, 21, 26)
    /\ call.bfPercentage # NULL /\ call.sex = "female"
         => call.ret = Band(call.bfPercentage, 14, 24, 33, 39)

\* a call on a limit of a band: male, exactly 15
C14_Witness ==
  /\ call.done
  /\ call.sex = "male"
  /\ call.bfPercentage = Int2Num(15)
  /\ call.ret = "Athletic"

Severity(category) ==
  CASE category = "Contest Prep" -> 1
    [] category = "Athletic" -> 2
    [] category = "Average" -> 3
    [] category = "Overweight" -> 4
    [] category = "Obese" -> 5
    [] OTHER -> 0

\* C15: for a fixed sex getBfCategory never gets less severe as bf grows:
\* whenever a <= b, the category of a is not more severe than that of b.
C15_CategoryMonotonic ==
  call.done /\ call.bfPercentage # NULL /\ call.sex # "null" =>
    \A a \in BfValues \ {NULL} :
      Le(a, call.bfPercentage)
        => Severity(getBfCategory(a, call.sex)) <= Severity(call.ret)

\* a call whose category is above that of some smaller bf
C15_Witness ==
  /\ call.done
  /\ call.sex = "female"
  /\ call.ret = "Overweight"
  /\ \E a \in BfValues \ {NULL} :
       /\ Lt(a, call.bfPercentage)
       /\ Severity(getBfCategory(a, call.sex)) < Severity(call.ret)

\* C16: for a female record without hipCm, every other field present, the
\* Navy estimate is absent.  (The memo returns null for such a record, so
\* none of the other estimates is computed either.)
C16_FemaleWithoutHipNoNavy ==
  call.done
    /\ formData.sex = "female" /\ formData.hipCm = NULL
    /\ formData.age # NULL /\ formData.weightKg # NULL
    /\ formData.heightCm # NULL /\ formData.neckCm # NULL
    /\ formData.waistCm # NULL
  => call.values.NAVY = NULL

\* such a record, with a waist wider than the neck and a positive height
C16_Witness ==
  /\ call.done
  /\ formData.sex = "female" /\ formData.hipCm = NULL
  /\ formData.age # NULL
  /\ Gt(Sub(formData.waistCm, formData.neckCm), Zero)
  /\ Gt(formData.heightCm, Zero)
  /\ Gt(formData.weightKg, Zero)
  /\ call.values.NAVY = NULL

\* C17: for a male record the bundle is the same whatever hipCm is: null, or
\* any number.
C17_MaleIgnoresHip ==
  call.done /\ formData.sex = "male" =>
    \A hipCm \in HipValues :
      LET other == [formData EXCEPT !.hipCm = hipCm]
      IN  /\ resultsOf(other).isNull = call.isNull
          /\ valuesOf(other) = call.values

\* a male record with a hip number and a Navy estimate
C17_Witness ==
  /\ call.done
  /\ formData.sex = "male"
  /\ formData.hipCm = Int2Num(95)
  /\ call.values.NAVY # NULL
  /\ call.values.AVERAGE_BF # NULL

\* x is present and rounds to the given number of hundredths
Approx(x, hundredths) ==
  /\ x # NULL
  /\ 2 * Abs(ToFix(x) - hundredths * (Scale \div 100)) <= Scale \div 100

\* C19 as stated: for the record male, 30, 80 kg, 180 cm, neck 38, waist 85
\* the bundle has BMI 24.69, BMI-based 14.52 and RFM 54.56, to two decimals.
C19_ExampleValues ==
  call.done /\ formData = ExampleFormData =>
    /\ Approx(call.values.BMI_VAL, 2469)
    /\ Approx(call.values.BMI_BF, 1452)
    /\ Approx(call.values.RFM, 5456)

\* C19 amended: for the record male, 30, 80 kg, 180 cm, neck 38, waist 85
\* the bundle has BMI 24.69, BMI-based 20.33 and RFM 21.65, to two decimals.
C19_ExampleValuesAmended ==
  call.done /\ formData = ExampleFormData =>
    /\ Approx(call.values.BMI_VAL, 2469)
    /\ Approx(call.values.BMI_BF, 2033)
    /\ Approx(call.values.RFM, 2165)

\* the memo evaluated on the example record
C19_Witness ==
  /\ call.done
  /\ formData = ExampleFormData
  /\ call.values.BMI_VAL # NULL
  /\ call.values.BMI_BF # NULL
  /\ call.values.RFM # NULL

\* C20: for the record male, 30, 80 kg, 180 cm, neck 38, waist 85 all five
\* estimates are present, the average is their arithmetic mean (to the last
\* digit kept) and the category of the average is "Average".
C20_ExampleAverageCategory ==
  call.done /\ formData = ExampleFormData =>
    LET sum == SumOf(call.values, FiveEstimates)
        avg == ToFix(call.values.AVERAGE_BF)
    IN  /\ PresentIn(call.values) = FiveEstimates
        /\ call.values.AVERAGE_BF # NULL
        /\ 5 * avg <= sum /\ sum < 5 * avg + 5
        /\ call.userCategory = "Average"

\* the example record with its five estimates and its category
C20_Witness ==
  /\ call.done
  /\ formData = ExampleFormData
  /\ PresentIn(call.values) = FiveEstimates
  /\ call.userCategory = "Average"

\* the record fd with the other sex
OtherSex(fd) ==
  [fd EXCEPT !.sex = IF fd.sex = "male" THEN "female" ELSE "male"]

\* C21: the two sex indicators have opposite polarity: the Deurenberg one
\* is 1 for male and 0 for female, the CUN-BAE/ECORE one is 1 for female
\* and 0 for male, so exactly one of them is 1 for either sex.  In the
\* bundles of a male record and of the same record as female, where the
\* male estimate is not clamped, the BMI-based estimate of the male is the
\* female's minus 10.8, the female's ECORE is the male's plus 11.9, and the
\* female's CUN-BAE is the male's plus 10.689 + 0.181 bmi - 0.005 bmi^2.
C21_OppositePolarity ==
  /\ \A isMale \in BOOLEAN :
       /\ sexFactorDeurenberg(isMale) = (IF isMale THEN 1 ELSE 0)
       /\ sexFactorCunEcore(isMale) = (IF isMale THEN 0 ELSE 1)
       /\ sexFactorDeurenberg(isMale) + sexFactorCunEcore(isMale) = 1
  /\ call.done /\ ~call.isNull /\ ~resultsOf(OtherSex(formData)).isNull =>
       \E other \in {valuesOf(OtherSex(formData))} :
         LET m == IF formData.sex = "male" THEN call.values ELSE other
             f == IF formData.sex = "male" THEN other ELSE call.values
             bmi == ToFix(m.BMI_VAL)
         IN  /\ m.BMI_BF # NULL /\ Gt(m.BMI_BF, Zero) =>
                  f.BMI_BF = Add(m.BMI_BF, Num(108, 10))
             /\ m.ECORE # NULL /\ Gt(m.ECORE, Zero) =>
                  f.ECORE = Add(m.ECORE, Num(119, 10))
             /\ m.CUN_BAE # NULL /\ Gt(m.CUN_BAE, Zero) =>
                  f.CUN_BAE =
                    Add(m.CUN_BAE,
                        FromFix[Dec(10689, 1000) + Coef[181, 1000, bmi]
                                  - Coef[5, 1000, FMul[bmi, bmi]]])

\* a female record with the hip measured whose male counterpart has
\* positive BMI-based, CUN-BAE and ECORE estimates
C21_Witness ==
  /\ call.done
  /\ ~call.isNull
  /\ formData.sex = "female"
  /\ formData.hipCm # NULL
  /\ \E other \in {valuesOf(OtherSex(formData))} :
       /\ other.BMI_BF # NULL /\ Gt(other.BMI_BF, Zero)
       /\ other.ECORE # NULL /\ Gt(other.ECORE, Zero)
       /\ other.CUN_BAE # NULL /\ Gt(other.CUN_BAE, Zero)
       /\ call.values.BMI_BF = Add(other.BMI_BF, Num(108, 10))

\* C22: once isLoading is set the wizard reaches the Results step, the
\* timers running fairly, and formData does not change from then on until
\* Results is shown.
C22_LoadingReachesResults ==
  /\ isLoading ~> (currentStep = 9)
  /\ [][isLoading => formData' = formData]_vars

\* C23: every change of currentStep goes to the step after or the step
\* before the one shown (Waist and Loading being neighbours for male), or
\* to Welcome by the callback of Reset.
C23_AdjacentSteps ==
  [][currentStep' # currentStep =>
       \/ currentStep' = Forward(currentStep, formData.sex)
       \/ currentStep' = PrevStepOf(currentStep, formData.sex)
       \/ currentStep' = 0 /\ Head(timers).kind = "reset"]_vars

\* the text shown in the input name
TextOf(name) == IF name = "age" THEN ageStr ELSE tempInputs[name]

\* the inputs of a measurement step, the age input included
FieldsAt(step, unit) == IF step = 2 THEN {"age"} ELSE InputsAt(step, unit)

\* the text parses to a number outside the bounds of the input name
OutOfBounds(name, unit, text) ==
  /\ parseState(text) # NULL
  /\ \/ Lt(parseState(text), boundsOf(name, unit).min)
     \/ Gt(parseState(text), boundsOf(name, unit).max)

\* C24: at a measurement step, a field of the step whose text parses to a
\* number outside its bounds in the active unit system has a message in
\* errors (so the Next button is disabled).
C24_OutOfBoundsHasError ==
  currentStep \in 2..7 =>
    \A name \in FieldsAt(currentStep, unitSystem) :
      OutOfBounds(name, unitSystem, TextOf(name)) => errors[name] # Empty

\* the fields handleNext looks at in the case of a step
CheckedAt(step, unit) == IF step = 1 THEN {"sex"} ELSE FieldsAt(step, unit)

\* the field is empty or has a message in errors
Unfit(name) ==
  \/ errors[name] # Empty
  \/ IF name = "sex" THEN formData.sex = "null" ELSE TextOf(name) = Empty

\* C25: a Next or Enter pressed while a field of the current step is empty
\* or has a message in errors changes nothing but errors: the step, the
\* pending callbacks, formData, the texts, the unit system and the loading
\* state stay, and errors holds for each such field its message or, if it
\* had none, the 'required' message of the field.
C25_RejectedNextFrame ==
  [][(NextClick \/ handleKeyDown)
       /\ (\E name \in CheckedAt(currentStep, unitSystem) : Unfit(name)) =>
       /\ currentStep' = currentStep
       /\ timers' = timers
       /\ formData' = formData
       /\ tempInputs' = tempInputs
       /\ ageStr' = ageStr
       /\ unitSystem' = unitSystem
       /\ isLoading' = isLoading
       /\ \A name \in CheckedAt(currentStep, unitSystem) :
            Unfit(name) =>
              /\ errors'[name] # Empty
              /\ errors'[name] = (IF errors[name] # Empty THEN errors[name]
                                  ELSE RequiredMsg(name))]_vars

\* Enter was pressed at the Neck step with nothing typed into the input
C25_Witness ==
  /\ currentStep = 5
  /\ tempInputs.neck = Empty
  /\ errors["neck"] = RequiredMsg("neck")
  /\ formData.neckCm = NULL
  /\ timers = <<>>

\* C26: for a complete record with every field inside its domain the BMI
\* value and the BMI-based, RFM, CUN-BAE and ECORE estimates are present;
\* Navy is present for a female record, and for a male record exactly when
\* waistCm > neckCm; so the average is present, taken over four or five
\* estimates, and the category of the results screen is not Unknown.
C26_InDomainAllPresent ==
  call.done =>
    LET v == call.values
    IN  /\ ~call.isNull
        /\ \A k \in {"BMI_VAL", "BMI_BF", "RFM", "CUN_BAE", "ECORE"} :
             v[k] # NULL /\ ~isNaN(v[k])
        /\ formData.sex = "female" => v.NAVY # NULL
        /\ formData.sex = "male" =>
             ((v.NAVY # NULL) <=> Gt(formData.waistCm, formData.neckCm))
        /\ Cardinality(PresentIn(v)) \in {4, 5}
        /\ v.AVERAGE_BF # NULL /\ ~isNaN(v.AVERAGE_BF)
        /\ call.userCategory # "Unknown"

\* a male record inside the domains with the neck wider than the waist:
\* four estimates, an average and a category
C26_Witness ==
  /\ call.done
  /\ formData.sex = "male"
  /\ Lt(formData.waistCm, formData.neckCm)
  /\ InRange(formData.waistCm, 40, 200)
  /\ InRange(formData.neckCm, 20, 70)
  /\ call.values.NAVY = NULL
  /\ Cardinality(PresentIn(call.values)) = 4
  /\ call.userCategory # "Unknown"

\* C27: handleUnitToggle leaves formData, ageStr and currentStep (and the
\* loading state and the pending callbacks) as they are; called with the
\* other unit system it sets unitSystem and replaces tempInputs and errors,
\* called with the active one it changes nothing at all.
C27_ToggleFrame ==
  [][\A newSystem \in {"metric", "imperial"} :
       handleUnitToggle(newSystem) =>
         /\ formData' = formData
         /\ ageStr' = ageStr
         /\ currentStep' = currentStep
         /\ isLoading' = isLoading
         /\ loadingProgress' = loadingProgress
         /\ timers' = timers
         /\ newSystem # unitSystem =>
              unitSystem' = newSystem /\ errors' = NoErrors
         /\ newSystem = unitSystem =>
              /\ unitSystem' = unitSystem
              /\ tempInputs' = tempInputs
              /\ errors' = errors]_vars

\* the weight committed as 80 kg, then the toggle to imperial at the Height
\* step: the input shows 176.4 and formData still holds 80
C27_Witness ==
  /\ unitSystem = "imperial"
  /\ currentStep = 4
  /\ formData.weightKg = Int2Num(80)
  /\ tempInputs.weight = <<"1", "7", "6", ".", "4">>
  /\ ageStr = <<"3", "0">>

\* every text of the inputs that is not empty passes validateInputOnChange
AllValid(inputs, unit) ==
  \A name \in DOMAIN inputs :
    inputs[name] # Empty => validateInputOnChange(name, inputs[name], unit) = Empty

\* C28: a toggle to the other unit system made while every non-empty text
\* is within the bounds of the old unit system leaves every non-empty text
\* within the bounds of the new one.
C28_ToggleKeepsValid ==
  [][\A newSystem \in {"metric", "imperial"} :
       handleUnitToggle(newSystem) /\ newSystem # unitSystem
         /\ AllValid(tempInputs, unitSystem) =>
         AllValid(tempInputs', newSystem)]_vars

\* C29: after the toggle from metric to imperial and the toggle back the
\* inputs show the texts they showed before the two toggles.
C29_ToggleRoundTrip ==
  call.unit = "metric" /\ unitSystem = "metric" /\ nDetours = 2 =>
    tempInputs = call.inputs

\* The message the Turkish variant shows where the English one shows msg
\* under errors[key].
Localize(key, msg) ==
  IF msg = Empty THEN Empty
  ELSE IF msg = MsgInvalidNumber THEN TR_errorInvalidNumber
  ELSE IF msg = RequiredMsg(key) THEN TR_errorRequired(key)
  ELSE IF Head(msg) = "Range: " THEN <<"Aralik: ">> \o Tail(msg)
  ELSE <<"?">>

\* The state of the English variant as a state of the Turkish one: the same
\* cells, each message replaced by its Turkish counterpart.
Localized ==
  [currentStep |-> currentStep, unitSystem |-> unitSystem,
   formData |-> formData, tempInputs |-> tempInputs, ageStr |-> ageStr,
   errors |-> [key \in ErrKeys |-> Localize(key, errors[key])],
   isLoading |-> isLoading, loadingProgress |-> loadingProgress,
   timers |-> timers]

\* C30: the Turkish and the English variant are the same machine up to their
\* strings.  They start in corresponding states, and whenever the English
\* variant takes a step on an event, the Turkish variant offers the same
\* event in the corresponding state and its handler leads to the state that
\* corresponds to the English successor: the same currentStep, unitSystem,
\* formData, texts, isLoading, progress and pending callbacks, and a message
\* under the same error keys.  Run side by side on the same events the two
\* therefore agree at every step, and the results memo and getBfCategory,
\* which read formData only, give the same bundle and category.
C30_VariantsInLockstep ==
  /\ Localized = TR_Init
  /\ [][/\ handleStart => TR_handleStart(Localized) = Localized'
        /\ \A sex \in {"male", "female"} :
             SelectSex(sex) => TR_SelectSex(Localized, sex) = Localized'
        /\ \A value \in AgeTexts :
             handleAgeInputChange(value) =>
               TR_handleAgeInputChange(Localized, value) = Localized'
        /\ \A value \in SliderTexts :
             handleAgeSliderChange(value) =>
               TR_handleAgeSliderChange(Localized, value) = Localized'
        /\ \A name \in ErrKeys \ {"sex", "age"} :
             \A value \in TextsFor(name, unitSystem) :
               handleTempInputChange(name, value) =>
                 TR_handleTempInputChange(Localized, name, value) = Localized'
        /\ \A newSystem \in {"metric", "imperial"} :
             handleUnitToggle(newSystem) =>
               TR_handleUnitToggle(Localized, newSystem) = Localized'
        /\ NextClick => TR_NextClick(Localized) = Localized'
        /\ handleKeyDown => TR_handleKeyDown(Localized) = Localized'
        /\ handleBack => TR_handleBack(Localized) = Localized'
        /\ handleReset => TR_handleReset(Localized) = Localized'
        /\ TimerFire => TR_TimerFire(Localized) = Localized'
        /\ \A p \in ProgressLevels :
             ProgressTick /\ loadingProgress' = p =>
               TR_ProgressTick(Localized, p) = Localized'
        /\ NavigationTimeout => TR_NavigationTimeout(Localized) = Localized'
     ]_vars

\* the two variants show their range message for a waist of 300 cm
C30_Witness ==
  /\ currentStep = 6
  /\ tempInputs.waist = <<"3", "0", "0">>
  /\ errors["waist"] = MsgRange(Int2Num(40), Int2Num(200))
  /\ Localized.errors["waist"] = TR_errorRange(<<"4", "0">>, <<"2", "0", "0">>)
  /\ Localized.errors["waist"] # errors["waist"]

====
